---- MODULE Spec2Model ----
(***************************************************************************)
(* PixelFree backend: the album refresh scheduler                          *)
(* (services/albumScheduler.js), the album and photo repositories          *)
(* (db/albumRepo.js, db/photoRepo.js, db/schema.sql) and the album routes  *)
(* that create, patch and delete albums (api/albumsRoutes.js).             *)
(*                                                                         *)
(* Time is Date.now() in milliseconds.  Timestamps are stored as ISO-8601  *)
(* strings with millisecond precision (toISOString) and read back with     *)
(* new Date(s).getTime(); on integer millisecond values that round trip    *)
(* returns the same integer, so a stored timestamp is the integer itself.  *)
(* A JSON value that is null or absent is None (the empty tuple), a        *)
(* present value v is Some(v).                                             *)
(***************************************************************************)
EXTENDS Integers, Sequences, FiniteSets, TLC

\* ------------------------------------------------------------------ bounds
StartClock == 1000000000     \* Date.now() when the process starts
Horizon    == 64000          \* the clock stops advancing this long after StartClock
JitterDen  == 1              \* Math.random() is sampled at k/JitterDen steps of the jitter
MaxRetry   == 10             \* no rate-limited refresh once retry_count reached this
MaxTimers  == 2              \* interval timers that can be armed at once
MaxRequests == 2             \* requests served in one run, album creations not counted

MaxClock == StartClock + Horizon

\* ------------------------------------------------------- program constants
TICK_INTERVAL_MS    == 60000
MAX_BACKOFF_MS      == 21600000
JITTER_PERCENTAGE   == 10
BaseBackoffMs       == 60000
FallbackIntervalMs  == 86400000
SettingsIntervalMs  == 300000
RouteIntervalMs     == 600000
InterAlbumDelayMs   == 1000

\* ------------------------------------------------------------ value helpers
None == << >>
Some(v) == << v >>
IsSome(m) == m # << >>
Val(m) == m[1]

Max2(a, b) == IF a >= b THEN a ELSE b
Min2(a, b) == IF a <= b THEN a ELSE b

RECURSIVE Pow2(_)
Pow2(n) == IF n <= 0 THEN 1 ELSE 2 * Pow2(n - 1)

\* Math.round(n / d) for d > 0: floor(n/d + 1/2)
RoundDiv(n, d) == (2 * n + d) \div (2 * d)

\* ------------------------------------------------------------------ domains
AlbumIds  == {"a1", "a2"}
TickIds   == {1, 2}
TimerIds  == 1 .. MaxTimers
PhotoIds  == {"p1", "p2"}
JitterSteps == (0 - JitterDen) .. JitterDen

\* created_at of the remote posts (p2 is the newer one)
CreatedAt == [p \in PhotoIds |-> IF p = "p1" THEN 100 ELSE 200]

\* the lists a resolve returns here: distinct status ids, newest first
\* (photoFetcher sorts by created_at descending after de-duplication)
CandidateLists == { << >>, <<"p1">>, <<"p2", "p1">> }

\* the photo objects of such a list, as normalizeStatusesToPhotos shapes them
PostOf(id) == [id |-> Some(id), created_at |-> CreatedAt[id], caption |-> "c",
               tags |-> Some(<< <<"a">> >>)]
Candidates(ids) == [i \in DOMAIN ids |-> PostOf(ids[i])]

\* ------------------------------------------------------------ album queries
\* query_users is what the create route hands to albumRepo.create:
\* parseUsers(query.users), the object { accts: [...], ids: [...] }, stored as
\* JSON.stringify of it.  No handler stores an array there.
\* `users` is the accts list of that object (empty when query_users is null).
\* The other query columns: query_tags (the tag list, empty when null),
\* query_tagmode, query_limit.
TagQuery       == [type |-> "tag",  usersShape |-> "none", users |-> << >>,
                   tags |-> << <<"a">> >>, tagmode |-> "any", limit |-> 20]
RouteUserQuery == [type |-> "user", usersShape |-> "object", users |-> <<"u1">>,
                   tags |-> << >>, tagmode |-> "any", limit |-> 20]
AlbumQueries   == {TagQuery, RouteUserQuery}

\* ------------------------------------------------------------ refresh_json
RefreshKeys == {"intervalMs", "refresh_interval_ms", "last_checked_at", "backoff_until",
                "since_id", "max_id", "retry_count", "last_error"}
EmptyRefresh == [k \in RefreshKeys |-> None]

\* { ...a, ...b } : keys of b win
Spread(a, b) == [k \in (DOMAIN a) \cup (DOMAIN b) |-> IF k \in DOMAIN b THEN b[k] ELSE a[k]]

\* a row of table albums that was never inserted
NoRow == [used |-> FALSE, live |-> FALSE, name |-> "", enabled |-> FALSE, updated_at |-> 0,
          query |-> TagQuery, refresh |-> EmptyRefresh]

\* --------------------------------------------------------- error messages
\* A message is a sequence of tokens; digits that come from outside (an HTTP
\* status, the body the remote sent) are one token each, so that
\* message.includes('429') is decided by looking for the digits, as
\* String.prototype.includes does.
Includes429(msg) ==
  \E i \in 1 .. (Len(msg) - 2) : msg[i] = "4" /\ msg[i + 1] = "2" /\ msg[i + 2] = "9"

StatusDigits(status) ==
  IF status = 429 THEN <<"4", "2", "9">> ELSE IF status = 500 THEN <<"5", "0", "0">>
  ELSE IF status = 503 THEN <<"5", "0", "3">> ELSE IF status = 404 THEN <<"4", "0", "4">>
  ELSE <<"4", "0", "1">>

\* JSON.stringify(body) of the bodies the token endpoint answers a refused
\* refresh with: an OAuth error object, with or without a request id
TokenBodies ==
  { <<"{error:invalid_grant}">>,
    <<"{error:invalid_grant,request_id:7f", "4", "2", "9", "c1}">> }

\* auth.getAccessToken: `Refresh failed (${res.status}): ${JSON.stringify(body)}`
RefreshFailedError(status, body) ==
  [kind |-> "err", cands |-> << >>, code |-> "",
   msg |-> <<"Refresh failed (">> \o StatusDigits(status) \o <<"): ">> \o body]

\* errors.js: RateLimitError / UpstreamError as thrown by fetchTagTimeline
RateLimitError == [kind |-> "err", cands |-> << >>, code |-> "rate_limited",
                   msg |-> <<"Rate limited by the remote instance">>]
UpstreamError  == [kind |-> "err", cands |-> << >>, code |-> "upstream_error",
                   msg |-> <<"Remote instance error">>]
\* for (const id of accountIds) over an object
NotIterable    == [kind |-> "err", cands |-> << >>, code |-> "",
                   msg |-> <<"accountIds is not iterable">>]
SqliteFK       == [kind |-> "err", cands |-> << >>, code |-> "SQLITE_CONSTRAINT_FOREIGNKEY",
                   msg |-> <<"FOREIGN KEY constraint failed">>]
AlbumNotFound  == [kind |-> "err", cands |-> << >>, code |-> "",
                   msg |-> <<"AlbumNotFound">>]
Fetched(c)     == [kind |-> "ok", cands |-> c, code |-> "", msg |-> << >>]

\* what the awaited photoFetcher call of refreshAlbum can settle with: both
\* fetchers call getAccessToken first (the refresh of an expired token is
\* refused with 401 here); then a tag album gets its timeline, a 429 or a
\* 5xx, and a user album fails on iterating its users object
FetchOutcomes(row) ==
  {RefreshFailedError(401, b) : b \in TokenBodies}
  \cup (IF row.query.type = "tag"
        THEN {Fetched(c) : c \in CandidateLists} \cup {RateLimitError, UpstreamError}
        ELSE {NotIterable})

\* ------------------------------------------------------------------- state
VARIABLES
  clock,          \* Date.now()
  syncInterval,   \* settings.sync?.intervalMs (None when sync has no intervalMs)
  albums,         \* table albums: id -> row (NoRow when never inserted)
  photos,         \* table photos: status_id -> row
  items,          \* table album_items: pairs <<album_id, status_id>>
  isRunning,      \* albumScheduler.isRunning
  schedulerTimer, \* albumScheduler.schedulerTimer: None or Some(timer id)
  timers,         \* the setInterval timers of the event loop: id -> armed?, next fire
  stats,          \* albumScheduler.stats
  ticks,          \* the schedulerTick calls that are suspended at an await
  force,          \* the forceRefreshAlbum call, or the POST /:id/refresh handler,
                  \* that is suspended at its await
  budget,         \* requests still to be served (bounds the exploration)
  ev              \* the last operation that ran and how it ended (observation only)

vars == <<clock, syncInterval, albums, photos, items, isRunning, schedulerTimer, timers,
          stats, ticks, force, budget, ev>>

\* --------------------------------------------- albumScheduler.js, pure parts
GetDefaultRefreshInterval(sync) ==
  IF IsSome(sync) /\ Val(sync) # 0 THEN Val(sync) ELSE FallbackIntervalMs

\* Math.round(ms + (Math.random() - 0.5) * 2 * jitter), the random offset
\* sampled at j / JitterDen of the jitter, j in -JitterDen .. JitterDen
\* (ms = 100 q + r is split so that no intermediate product leaves 32 bits;
\* the value is ms + round(ms * JITTER_PERCENTAGE * j / (100 * JitterDen)))
AddJitter(ms, j) ==
  LET q  == ms \div 100
      r  == ms % 100
      A  == q * JITTER_PERCENTAGE * j
      a1 == A \div JitterDen
      a2 == A % JitterDen
  IN  ms + a1 + RoundDiv(100 * a2 + r * JITTER_PERCENTAGE * j, 100 * JitterDen)

BackoffWindow(attemptCount) == Min2(BaseBackoffMs * Pow2(attemptCount), MAX_BACKOFF_MS)

CalculateBackoff(attemptCount, j) == AddJitter(BackoffWindow(attemptCount), j)

\* refresh.retry_count || 0
RetryCountOf(refresh) == IF IsSome(refresh["retry_count"]) THEN Val(refresh["retry_count"]) ELSE 0

\* the interval isDueForRefresh works with
RefreshIntervalOf(refresh, sync) ==
  IF IsSome(refresh["refresh_interval_ms"]) /\ Val(refresh["refresh_interval_ms"]) # 0
  THEN Val(refresh["refresh_interval_ms"])
  ELSE GetDefaultRefreshInterval(sync)

InBackoff(refresh, now) ==
  IsSome(refresh["backoff_until"]) /\ now < Val(refresh["backoff_until"])

\* isDueForRefresh without its backoff test
IsDueIgnoringBackoff(row, now, sync, j) ==
  /\ row.enabled
  /\ LET lastChecked == IF IsSome(row.refresh["last_checked_at"])
                        THEN Val(row.refresh["last_checked_at"]) ELSE 0
     IN  now >= lastChecked + AddJitter(RefreshIntervalOf(row.refresh, sync), j)

IsDueForRefresh(row, now, sync, j) ==
  /\ row.enabled
  /\ ~InBackoff(row.refresh, now)
  /\ LET lastChecked == IF IsSome(row.refresh["last_checked_at"])
                        THEN Val(row.refresh["last_checked_at"]) ELSE 0
     IN  now >= lastChecked + AddJitter(RefreshIntervalOf(row.refresh, sync), j)

\* candidates.reduce((newest, post) => !newest || post.created_at > newest.created_at
\*                                      ? post : newest, null)
RECURSIVE NewestFrom(_, _, _)
NewestFrom(cands, i, newest) ==
  IF i > Len(cands) THEN newest
  ELSE NewestFrom(cands, i + 1,
         IF newest = None \/ CreatedAt[cands[i]] > CreatedAt[Val(newest)]
         THEN Some(cands[i]) ELSE newest)

NewestPost(cands) == NewestFrom(cands, 1, None)

IsRateLimited(err) == err.code = "rate_limited" \/ Includes429(err.msg)

\* ------------------------------------------------ albumRepo.js, photoRepo.js
\* a patch that names nothing: no name, no enabled, no query field, no refresh key
NoQueryPatch == [type |-> None, tags |-> None, usersShape |-> None, users |-> None,
                 tagmode |-> None, limit |-> None]
NoPatch == [name |-> None, hasEnabled |-> FALSE, enabled |-> FALSE, query |-> NoQueryPatch,
            refresh |-> << >>]

\* patch.x ?? current.x
Coalesce(given, current) == IF IsSome(given) THEN Val(given) ELSE current

\* an update whose refresh_json is the patch's refresh object alone
ReplaceRefresh(current, given) ==
  [k \in DOMAIN current |-> IF k \in DOMAIN given THEN given[k] ELSE None]

\* { ...JSON.parse(current.refresh_json), ...(patch.refresh || {}) }
MergeRefresh(current, given) == Spread(current, given)

\* albumRepo.update(id, patch) on a row that exists: every column takes the
\* patch's value when the patch has one and the current value otherwise,
\* refresh_json is the merge, updated_at = now
AlbumRepoUpdate(tbl, id, patch, now) ==
  [tbl EXCEPT ![id] =
     [@ EXCEPT !.updated_at = now,
               !.name = Coalesce(patch.name, @),
               !.enabled = IF patch.hasEnabled THEN patch.enabled ELSE @,
               !.query = [type       |-> Coalesce(patch.query.type, @.type),
                          tags       |-> Coalesce(patch.query.tags, @.tags),
                          usersShape |-> Coalesce(patch.query.usersShape, @.usersShape),
                          users      |-> Coalesce(patch.query.users, @.users),
                          tagmode    |-> Coalesce(patch.query.tagmode, @.tagmode),
                          limit      |-> Coalesce(patch.query.limit, @.limit)],
               !.refresh = MergeRefresh(@, patch.refresh)]]

\* a tag is the sequence of its characters; String.toLowerCase on them
Lower(c) == CASE c = "A" -> "a" [] c = "B" -> "b" [] c = "C" -> "c" [] OTHER -> c
ToLowerCase(t) == [i \in DOMAIN t |-> Lower(t[i])]

\* t.replace(/^#/, '')
StripHash(t) == IF t # << >> /\ t[1] = "#" THEN Tail(t) ELSE t

\* String.trim
RECURSIVE Trim(_)
Trim(t) ==
  IF t = << >> THEN t
  ELSE IF t[1] = " " THEN Trim(Tail(t))
  ELSE IF t[Len(t)] = " " THEN Trim(SubSeq(t, 1, Len(t) - 1))
  ELSE t

\* Array.from(new Set(list)): the first occurrence of every element, in order
RECURSIVE Unique(_)
Unique(list) ==
  IF list = << >> THEN list
  ELSE LET init == Unique(SubSeq(list, 1, Len(list) - 1))
           last == list[Len(list)]
       IN  IF \E i \in DOMAIN init : init[i] = last THEN init ELSE Append(init, last)

\* list.filter(Boolean) on strings: the empty string goes
RECURSIVE NonEmpty(_)
NonEmpty(list) ==
  IF list = << >> THEN list
  ELSE IF list[1] = << >> THEN NonEmpty(Tail(list))
  ELSE <<list[1]>> \o NonEmpty(Tail(list))

\* upsertMany's tags_json for p.tags: null unless p.tags is an array with a
\* tag left after t.replace(/^#/, '').trim().toLowerCase() and filter(Boolean)
TagsJson(tags) ==
  IF ~IsSome(tags) THEN None
  ELSE LET raw  == Val(tags)
           norm == Unique(NonEmpty([i \in DOMAIN raw |-> ToLowerCase(Trim(StripHash(raw[i])))]))
       IN  IF norm = << >> THEN None ELSE Some(norm)

\* the photos row stmt.run writes for photo p at `now`
PhotoRow(p, now) ==
  [created_at |-> p.created_at, caption_html |-> p.caption, tags_json |-> TagsJson(p.tags),
   fetched_at |-> now]

\* the variant that keeps a stored row (INSERT OR IGNORE)
KeepRow(tbl, sid, row) ==
  [x \in DOMAIN tbl \cup {sid} |-> IF x \in DOMAIN tbl THEN tbl[x] ELSE row]

\* INSERT ... ON CONFLICT(status_id) DO UPDATE SET <every written column>
PutRow(tbl, sid, row) == [x \in DOMAIN tbl \cup {sid} |-> IF x = sid THEN row ELSE tbl[x]]

\* const sid = p?.status_id ?? p?.id; if (!sid) continue
Malformed(p) == ~IsSome(p.id)

\* photoRepo.upsertMany(photos), the transaction's loop from item i on: tbl is
\* the photos table (status_id -> row), ids the list returned so far
RECURSIVE UpsertFrom(_, _, _, _, _)
UpsertFrom(tbl, rows, i, ids, now) ==
  IF i > Len(rows) THEN [tbl |-> tbl, ids |-> ids]
  ELSE IF Malformed(rows[i]) THEN UpsertFrom(tbl, rows, i + 1, ids, now)
  ELSE UpsertFrom(PutRow(tbl, Val(rows[i].id), PhotoRow(rows[i], now)), rows, i + 1,
                  Append(ids, Val(rows[i].id)), now)

UpsertMany(tbl, rows, now) == UpsertFrom(tbl, rows, 1, << >>, now)

\* albumRepo.addPhotos(albumId, statusIds): INSERT OR IGNORE one id after the
\* other, primary key (album_id, status_id)
AddPhotos(tbl, albumId, ids) == tbl \cup {<<albumId, ids[i]>> : i \in DOMAIN ids}

\* a count of every id handed in, and addPhotos' return value: the number of
\* statements with info.changes > 0
CountsEveryId(tbl, albumId, ids) == Len(ids)

InsertedCount(tbl, albumId, ids) == Cardinality(AddPhotos(tbl, albumId, ids) \ tbl)

\* albumRepo.remove(id): DELETE, album_items rows go with it (ON DELETE CASCADE)
AlbumRepoRemove(tbl, id) == [tbl EXCEPT ![id] = [NoRow EXCEPT !.used = TRUE]]
CascadeItems(tbl, id) == {e \in tbl : e[1] # id}

\* albumRepo.list({limit: 1000}): ORDER BY updated_at DESC, rows with equal
\* updated_at in either order
ListOrders(tbl, ids) ==
  { s \in [1 .. Cardinality(ids) -> ids] :
      /\ \A i, k \in DOMAIN s : i # k => s[i] # s[k]
      /\ \A i, k \in DOMAIN s : i < k => tbl[s[i]].updated_at >= tbl[s[k]].updated_at }

\* ------------------------------------------------ albumScheduler.refreshAlbum
\* the three refresh-state patches refreshAlbum writes, each { ...refresh, ... }
\* over the refresh_json of the row the caller handed in
SuccessRefresh(refresh, cands, now) ==
  Spread(refresh,
         [k \in {"last_checked_at", "since_id", "backoff_until", "last_error", "retry_count"} |->
            CASE k = "last_checked_at" -> Some(now)
              [] k = "since_id" -> IF cands # << >> /\ NewestPost(cands) # None
                                   THEN NewestPost(cands) ELSE refresh["since_id"]
              [] k = "backoff_until" -> None
              [] k = "last_error" -> None
              [] OTHER -> Some(0)])

RateLimitedRefresh(refresh, err, now, j) ==
  LET retryCount == RetryCountOf(refresh) + 1
  IN  Spread(refresh,
         [k \in {"backoff_until", "last_error", "retry_count", "last_checked_at"} |->
            CASE k = "backoff_until" -> Some(now + CalculateBackoff(retryCount, j))
              [] k = "last_error" -> Some(err.msg)
              [] k = "retry_count" -> Some(retryCount)
              [] OTHER -> Some(now)])

FailedRefresh(refresh, err, now) ==
  Spread(refresh,
         [k \in {"last_error", "last_checked_at"} |->
            IF k = "last_error" THEN Some(err.msg) ELSE Some(now)])

\* refreshAlbum(album) from the moment the awaited fetch settles with `out`:
\* S holds the tables and the counters, snap is the row object the caller
\* read earlier.  outcome "threw" is the exception leaving refreshAlbum.
RefreshAlbum(snap, out, now, j, S) ==
  LET albumId  == snap.id
      refresh  == snap.row.refresh
      live     == S.albums[albumId].live
      upserted == UpsertMany(S.photos, Candidates(out.cands), now)
      cleanIds == Unique(upserted.ids)
      photos1  == IF out.kind = "ok" THEN upserted.tbl ELSE S.photos
      items1   == IF out.kind = "ok" /\ live THEN AddPhotos(S.items, albumId, cleanIds)
                  ELSE S.items
      err      == IF out.kind # "ok" THEN out
                  ELSE IF cleanIds # << >> /\ ~live THEN SqliteFK
                  ELSE AlbumNotFound
      errStats == [S.stats EXCEPT !.errors = @ + 1,
                                  !.rate_limited = IF IsRateLimited(err) THEN @ + 1 ELSE @]
  IN  IF out.kind = "ok" /\ live
      THEN [albums  |-> AlbumRepoUpdate(S.albums, albumId,
                          [NoPatch EXCEPT !.refresh = SuccessRefresh(refresh, out.cands, now)],
                          now),
            photos  |-> photos1,
            items   |-> items1,
            stats   |-> [S.stats EXCEPT !.albums_refreshed = @ + 1],
            linked  |-> InsertedCount(S.items, albumId, cleanIds),
            outcome |-> "success"]
      ELSE [albums  |-> IF ~live THEN S.albums
                        ELSE AlbumRepoUpdate(S.albums, albumId,
                               [NoPatch EXCEPT !.refresh =
                                  IF IsRateLimited(err)
                                  THEN RateLimitedRefresh(refresh, err, now, j)
                                  ELSE FailedRefresh(refresh, err, now)],
                               now),
            photos  |-> photos1,
            items   |-> items1,
            stats   |-> errStats,
            linked  |-> 0,
            outcome |-> IF ~live THEN "threw"
                        ELSE IF IsRateLimited(err) THEN "rate_limited" ELSE "failed"]

\* ----------------------------------------------------------------- set-up
ZeroStats == [started_at |-> None, last_run_at |-> None, total_runs |-> 0,
              albums_refreshed |-> 0, albums_skipped |-> 0, errors |-> 0, rate_limited |-> 0]

IdleTick  == [pc |-> "idle", origin |-> "timer", due |-> << >>, wake |-> 0]
IdleForce == [pc |-> "idle", due |-> << >>]
NoTimer   == [armed |-> FALSE, next |-> 0]

Event(op, a, res) == [op |-> op, album |-> a, res |-> res]
Quiet == Event("-", "-", "-")

Store == [albums |-> albums, photos |-> photos, items |-> items, stats |-> stats]

LiveIds(tbl) == {a \in AlbumIds : tbl[a].live}
Snapshot(tbl, a) == [id |-> a, row |-> tbl[a]]

AlbumIntervals == {30000}
SyncChoices    == {None, Some(SettingsIntervalMs), Some(20000)}

Init ==
  /\ clock = StartClock
  /\ syncInterval = Some(SettingsIntervalMs)
  /\ albums = [a \in AlbumIds |-> NoRow]
  /\ photos = << >>
  /\ items = {}
  /\ isRunning = FALSE
  /\ schedulerTimer = None
  /\ timers = [t \in TimerIds |-> NoTimer]
  /\ stats = ZeroStats
  /\ ticks = [k \in TickIds |-> IdleTick]
  /\ force = IdleForce
  /\ budget = MaxRequests
  /\ ev = Quiet

\* ------------------------------------------------------ request handlers
\* albumRepo.genId(): a fresh id; the ids are named in the order they are drawn
NextAlbumId ==
  IF \A a \in AlbumIds : albums[a].used THEN "-"
  ELSE CHOOSE a \in AlbumIds :
         ~albums[a].used /\ \A b \in AlbumIds : (~albums[b].used /\ b # a) => a = "a1"

\* POST /api/albums -> albumRepo.create
CreateAlbum(a, q, iv) ==
  /\ a = NextAlbumId
  /\ albums' = [albums EXCEPT ![a] =
       [used |-> TRUE, live |-> TRUE, name |-> "n", enabled |-> TRUE, updated_at |-> clock, query |-> q,
        refresh |-> Spread(EmptyRefresh, [k \in {"intervalMs"} |-> Some(iv)])]]
  /\ ev' = Quiet
  /\ UNCHANGED <<clock, syncInterval, photos, items, isRunning, schedulerTimer, timers,
                 stats, ticks, force, budget>>

\* PATCH /api/albums/:id -> albumRepo.update
PatchAlbum(a, patch) ==
  /\ budget > 0
  /\ albums[a].live
  /\ albums' = AlbumRepoUpdate(albums, a, patch, clock)
  /\ budget' = budget - 1
  /\ ev' = Quiet
  /\ UNCHANGED <<clock, syncInterval, photos, items, isRunning, schedulerTimer, timers,
                 stats, ticks, force>>

Patches ==
  {[NoPatch EXCEPT !.hasEnabled = TRUE, !.enabled = b] : b \in BOOLEAN}
  \cup {[NoPatch EXCEPT !.refresh = [k \in {"intervalMs"} |-> Some(RouteIntervalMs)]]}
  \cup {[NoPatch EXCEPT !.refresh = [k \in {"since_id"} |-> Some("p1")]]}

\* DELETE /api/albums/:id -> albumRepo.remove
DeleteAlbum(a) ==
  /\ budget > 0
  /\ albums[a].live
  /\ budget' = budget - 1
  /\ albums' = AlbumRepoRemove(albums, a)
  /\ items' = CascadeItems(items, a)
  /\ ev' = Quiet
  /\ UNCHANGED <<clock, syncInterval, photos, isRunning, schedulerTimer, timers, stats,
                 ticks, force>>

\* POST /api/settings -> settings.updateSettings (shallow merge: a body with
\* a sync object that has no intervalMs leaves sync.intervalMs undefined)
UpdateSettings(v) ==
  /\ budget > 0
  /\ budget' = budget - 1
  /\ syncInterval # v
  /\ syncInterval' = v
  /\ ev' = Quiet
  /\ UNCHANGED <<clock, albums, photos, items, isRunning, schedulerTimer, timers, stats,
                 ticks, force>>

\* ------------------------------------------------- albumScheduler.js, steps
\* the due-lists schedulerTick can compute: albums.filter(isDueForRefresh) over
\* albumRepo.list, isDueForRefresh rolling its jitter anew for every album
DueLists(tbl, now, sync) ==
  UNION { ListOrders(tbl, {a \in LiveIds(tbl) : IsDueForRefresh(tbl[a], now, sync, jit[a])})
          : jit \in [AlbumIds -> JitterSteps] }

SnapshotsOf(tbl, ids) == [i \in DOMAIN ids |-> Snapshot(tbl, ids[i])]

\* schedulerTick past `if(!isRunning) return`: last_run_at and total_runs
TickStats(st, now) == [st EXCEPT !.last_run_at = Some(now), !.total_runs = @ + 1]

FreeTicks  == {k \in TickIds : ticks[k].pc = "idle"}
FreeTimers == {t \in TimerIds : ~timers[t].armed}

\* setInterval(schedulerTick, TICK_INTERVAL_MS)
SetInterval(tm, t, now) == [tm EXCEPT ![t] = [armed |-> TRUE, next |-> now + TICK_INTERVAL_MS]]

\* startScheduler's reset of the counters
StartStats(st, now) ==
  [st EXCEPT !.started_at = Some(now), !.total_runs = 0, !.albums_refreshed = 0,
             !.albums_skipped = 0, !.errors = 0, !.rate_limited = 0]

\* a start guard that never finds the scheduler running
NeverAlreadyRunning(running) == FALSE

\* startScheduler: if(isRunning) { 'Already running'; return }
AlreadyRunning(running) == running

\* stopScheduler: if(!isRunning) { 'Not running'; return }
NotRunning(running) == ~running

\* schedulerTick: if (!isRunning) return
TickSkips(running) == ~running

\* a loop that never looks at the running flag
NeverBreaks(running) == FALSE

\* schedulerTick, in the loop over the due albums: if (!isRunning) break
LoopBreaks(running) == ~running

\* startScheduler up to its first suspension: the guard, the reset, and the
\* synchronous start of `await schedulerTick()`.  With nothing due the tick
\* returns at once and the interval timer is armed; otherwise the first due
\* album's refresh is awaiting its fetch and the timer is armed when that
\* tick has ended (EndTick).
StartSchedulerRun ==
  /\ ~AlreadyRunning(isRunning)
  /\ isRunning' = TRUE
  /\ \E due \in DueLists(albums, clock, syncInterval) :
       /\ stats' = TickStats(StartStats(stats, clock), clock)
       /\ IF due = << >>
          THEN /\ \E t \in FreeTimers :
                    /\ timers' = SetInterval(timers, t, clock)
                    /\ schedulerTimer' = Some(t)
               /\ UNCHANGED ticks
          ELSE /\ \E k \in FreeTicks :
                    ticks' = [ticks EXCEPT ![k] =
                      [pc |-> "fetch", origin |-> "start", due |-> SnapshotsOf(albums, due),
                       wake |-> 0]]
               /\ UNCHANGED <<timers, schedulerTimer>>
  /\ ev' = Event("start", "-", "started")
  /\ UNCHANGED <<clock, syncInterval, albums, photos, items, force>>

\* startScheduler on a running scheduler: 'Already running'
StartSchedulerNoop ==
  /\ AlreadyRunning(isRunning)
  /\ ev' = Event("start", "-", "already")
  /\ UNCHANGED <<clock, syncInterval, albums, photos, items, isRunning, schedulerTimer,
                 timers, stats, ticks, force>>

StartScheduler ==
  /\ budget > 0
  /\ budget' = budget - 1
  /\ (StartSchedulerRun \/ StartSchedulerNoop)

\* clearInterval(schedulerTimer) when schedulerTimer is set
ClearInterval(tm, handle) ==
  IF IsSome(handle) THEN [tm EXCEPT ![Val(handle)] = NoTimer] ELSE tm

\* stopScheduler: the 2 s wait that follows changes no state
StopSchedulerRun ==
  /\ ~NotRunning(isRunning)
  /\ isRunning' = FALSE
  /\ timers' = ClearInterval(timers, schedulerTimer)
  /\ schedulerTimer' = None
  /\ ev' = Event("stop", "-", "stopped")
  /\ UNCHANGED <<clock, syncInterval, albums, photos, items, stats, ticks, force>>

\* stopScheduler on a stopped scheduler: 'Not running'
StopSchedulerNoop ==
  /\ NotRunning(isRunning)
  /\ ev' = Event("stop", "-", "not_running")
  /\ UNCHANGED <<clock, syncInterval, albums, photos, items, isRunning, schedulerTimer,
                 timers, stats, ticks, force>>

StopScheduler ==
  /\ budget > 0
  /\ budget' = budget - 1
  /\ (StopSchedulerRun \/ StopSchedulerNoop)

\* an interval timer fires: schedulerTick up to its first suspension
TimerFire(t) ==
  /\ timers[t].armed
  /\ clock = timers[t].next
  /\ timers' = [timers EXCEPT ![t].next = @ + TICK_INTERVAL_MS]
  /\ IF TickSkips(isRunning)
     THEN /\ ev' = Event("tick", "-", "skipped")
          /\ UNCHANGED <<stats, ticks>>
     ELSE \E due \in DueLists(albums, clock, syncInterval) :
            /\ stats' = TickStats(stats, clock)
            /\ ev' = Event("tick", "-", "ran")
            /\ IF due = << >>
               THEN UNCHANGED ticks
               ELSE \E k \in FreeTicks :
                         ticks' = [ticks EXCEPT ![k] =
                           [pc |-> "fetch", origin |-> "timer",
                            due |-> SnapshotsOf(albums, due), wake |-> 0]]
  /\ UNCHANGED <<clock, syncInterval, albums, photos, items, isRunning, schedulerTimer,
                 force, budget>>

\* a schedulerTick call returns; the startScheduler that awaited it goes on
\* to `schedulerTimer = setInterval(...)`
EndTick(k) ==
  /\ ticks' = [ticks EXCEPT ![k] = IdleTick]
  /\ IF ticks[k].origin = "start"
     THEN \E t \in FreeTimers :
            /\ timers' = SetInterval(timers, t, clock)
            /\ schedulerTimer' = Some(t)
     ELSE UNCHANGED <<timers, schedulerTimer>>

\* the rate-limit branch is explored up to MaxRetry stored retries
WithinRetryBound(snap, out) ==
  (out.kind = "err" /\ IsRateLimited(out)) => RetryCountOf(snap.row.refresh) < MaxRetry

\* the fetch awaited by a tick's refreshAlbum settles: the rest of refreshAlbum
\* runs, then the tick sleeps 1 s (or, if refreshAlbum threw, the tick's own
\* catch counts the error and the tick returns)
TickFetchDone(k) ==
  /\ ticks[k].pc = "fetch"
  /\ LET snap == ticks[k].due[1] IN
     \E out \in FetchOutcomes(snap.row), j \in JitterSteps :
       /\ WithinRetryBound(snap, out)
       /\ LET R == RefreshAlbum(snap, out, clock, j, Store) IN
          /\ albums' = R.albums
          /\ photos' = R.photos
          /\ items' = R.items
          /\ ev' = Event("refresh", snap.id, R.outcome)
          /\ IF R.outcome = "threw"
             THEN /\ stats' = [R.stats EXCEPT !.errors = @ + 1]
                  /\ EndTick(k)
             ELSE /\ stats' = R.stats
                  /\ ticks' = [ticks EXCEPT ![k].pc = "delay",
                                            ![k].wake = clock + InterAlbumDelayMs]
                  /\ UNCHANGED <<timers, schedulerTimer>>
  /\ UNCHANGED <<clock, syncInterval, isRunning, force, budget>>

\* the 1 s sleep is over: next album of the due-list, unless the list is
\* finished or `if (!isRunning) break`
TickDelayDone(k) ==
  /\ ticks[k].pc = "delay"
  /\ clock >= ticks[k].wake
  /\ LET rest == Tail(ticks[k].due) IN
     IF rest = << >> \/ LoopBreaks(isRunning)
     THEN /\ EndTick(k)
          /\ ev' = Quiet
     ELSE /\ ticks' = [ticks EXCEPT ![k].pc = "fetch", ![k].due = rest, ![k].wake = 0]
          /\ ev' = Quiet
          /\ UNCHANGED <<timers, schedulerTimer>>
  /\ UNCHANGED <<clock, syncInterval, albums, photos, items, isRunning, stats, force, budget>>

\* forceRefreshAlbum(albumId) up to the await inside refreshAlbum
\* forceRefreshAlbum: `album = albumRepo.get(albumId); if (!album) throw`,
\* a variant that also refuses a disabled album, and the code's test
AlbumMissingOrDisabled(tbl, id) == ~tbl[id].live \/ ~tbl[id].enabled

AlbumMissing(tbl, id) == ~tbl[id].live

\* forceRefreshAlbum(albumId) up to the awaited fetch of refreshAlbum
ForceRefreshAlbum(a) ==
  /\ budget > 0
  /\ force.pc = "idle"
  /\ budget' = budget - 1
  /\ IF ~AlbumMissing(albums, a)
     THEN /\ force' = [pc |-> "fetch", due |-> <<Snapshot(albums, a)>>]
          /\ ev' = Quiet
     ELSE /\ ev' = Event("force", a, "not_found")
          /\ UNCHANGED force
  /\ UNCHANGED <<clock, syncInterval, albums, photos, items, isRunning, schedulerTimer,
                 timers, stats, ticks>>

ForceFetchDone ==
  /\ force.pc = "fetch"
  /\ LET snap == force.due[1] IN
     \E out \in FetchOutcomes(snap.row), j \in JitterSteps :
       /\ WithinRetryBound(snap, out)
       /\ LET R == RefreshAlbum(snap, out, clock, j, Store) IN
          /\ albums' = R.albums
          /\ photos' = R.photos
          /\ items' = R.items
          /\ stats' = R.stats
          /\ ev' = Event("force_refresh", snap.id, R.outcome)
  /\ force' = IdleForce
  /\ UNCHANGED <<clock, syncInterval, isRunning, schedulerTimer, timers, ticks, budget>>

\* ------------------------------------------------------------------- time
\* the instants at which the event loop has something scheduled
Deadlines ==
  {timers[t].next : t \in {u \in TimerIds : timers[u].armed}}
  \cup {ticks[k].wake : k \in {u \in TickIds : ticks[u].pc = "delay"}}

MinOf(S) == CHOOSE x \in S : \A y \in S : x <= y

FetchInFlight == force.pc \in {"fetch", "manual"} \/ \E k \in TickIds : ticks[k].pc = "fetch"

\* time passes up to the next scheduled instant (a whole tick interval when
\* nothing is scheduled); a timer that is due fires before time moves on.
\* Here every awaited fetch settles before the next scheduled instant.
Advance ==
  /\ ~FetchInFlight
  /\ LET target == IF Deadlines = {} THEN clock + TICK_INTERVAL_MS ELSE MinOf(Deadlines) IN
     /\ target > clock
     /\ target <= MaxClock
     /\ clock' = target
  /\ ev' = Quiet
  /\ UNCHANGED <<syncInterval, albums, photos, items, isRunning, schedulerTimer, timers,
                 stats, ticks, force, budget>>

\* one album, every handler
Next ==
  \/ \E q \in AlbumQueries, iv \in AlbumIntervals : CreateAlbum("a1", q, iv)
  \/ \E a \in AlbumIds, patch \in Patches : PatchAlbum(a, patch)
  \/ \E a \in AlbumIds : DeleteAlbum(a)
  \/ \E v \in SyncChoices : UpdateSettings(v)
  \/ StartScheduler
  \/ StopScheduler
  \/ \E t \in TimerIds : TimerFire(t)
  \/ \E k \in TickIds : TickFetchDone(k)
  \/ \E k \in TickIds : TickDelayDone(k)
  \/ \E a \in AlbumIds : ForceRefreshAlbum(a)
  \/ ForceFetchDone
  \/ Advance

Spec == Init /\ [][Next]_vars

\* two albums; the scheduler with album creation and deletion around it
NextTwo ==
  \/ \E a \in AlbumIds, q \in AlbumQueries, iv \in AlbumIntervals : CreateAlbum(a, q, iv)
  \/ \E a \in AlbumIds : DeleteAlbum(a)
  \/ StartScheduler
  \/ StopScheduler
  \/ \E t \in TimerIds : TimerFire(t)
  \/ \E k \in TickIds : TickFetchDone(k)
  \/ \E k \in TickIds : TickDelayDone(k)
  \/ Advance

SpecTwo == Init /\ [][NextTwo]_vars

\* ------------------------------------- albumsRoutes.js, POST /api/albums/:id/refresh
\* what the fetcher call of the route can settle with.  The route hands on
\* parseJsonArray(row.query_users), which is [] for the stored object, so a
\* user album's call gets its token and returns no photo
ManualFetchOutcomes(row) ==
  {RefreshFailedError(401, b) : b \in TokenBodies}
  \cup (IF row.query.type = "tag"
        THEN {Fetched(c) : c \in CandidateLists} \cup {RateLimitError, UpstreamError}
        ELSE {Fetched(<< >>)})

\* the route from the moment its fetch settles with `out`: upsertMany,
\* addPhotos, then albumRepo.update(row.id, { last_checked_at }) - a patch
\* without name, enabled, query or refresh; any exception is answered with 500
ManualRefresh(snap, out, now, S) ==
  LET albumId  == snap.id
      live     == S.albums[albumId].live
      upserted == UpsertMany(S.photos, Candidates(out.cands), now)
      cleanIds == Unique(upserted.ids)
  IN  IF out.kind # "ok"
      THEN [albums |-> S.albums, photos |-> S.photos, items |-> S.items, status |-> "500"]
      ELSE IF ~live
      THEN [albums |-> S.albums, photos |-> upserted.tbl, items |-> S.items, status |-> "500"]
      ELSE [albums |-> AlbumRepoUpdate(S.albums, albumId, NoPatch, now),
            photos |-> upserted.tbl,
            items  |-> AddPhotos(S.items, albumId, cleanIds),
            status |-> "200"]

\* the route up to its awaited fetcher call
ManualRefreshAlbum(a) ==
  /\ budget > 0
  /\ force.pc = "idle"
  /\ budget' = budget - 1
  /\ IF albums[a].live
     THEN /\ force' = [pc |-> "manual", due |-> <<Snapshot(albums, a)>>]
          /\ ev' = Quiet
     ELSE /\ ev' = Event("manual", a, "404")
          /\ UNCHANGED force
  /\ UNCHANGED <<clock, syncInterval, albums, photos, items, isRunning, schedulerTimer,
                 timers, stats, ticks>>

ManualFetchDone ==
  /\ force.pc = "manual"
  /\ LET snap == force.due[1] IN
     \E out \in ManualFetchOutcomes(snap.row) :
       LET R == ManualRefresh(snap, out, clock, Store) IN
         /\ albums' = R.albums
         /\ photos' = R.photos
         /\ items' = R.items
         /\ ev' = Event("manual", snap.id, R.status)
  /\ force' = IdleForce
  /\ UNCHANGED <<clock, syncInterval, isRunning, schedulerTimer, timers, stats, ticks, budget>>

\* one album, refreshed by hand and by the scheduler
NextManual ==
  \/ \E q \in AlbumQueries, iv \in AlbumIntervals : CreateAlbum("a1", q, iv)
  \/ \E a \in AlbumIds : DeleteAlbum(a)
  \/ \E a \in AlbumIds : ManualRefreshAlbum(a)
  \/ ManualFetchDone
  \/ StartScheduler
  \/ \E t \in TimerIds : TimerFire(t)
  \/ \E k \in TickIds : TickFetchDone(k)
  \/ \E k \in TickIds : TickDelayDone(k)
  \/ Advance

SpecManual == Init /\ [][NextManual]_vars

\* ---------------------------------------------- fetches that outlast the interval
SlowHorizon  == 124000       \* the slow run's clock stops this long after StartClock
SlowRequests == 3            \* start and stop requests served in the slow run

\* the remote instance leaves the request of tick k's refresh unanswered:
\* fetch(u, { headers }) is given no AbortSignal and no timeout and nothing
\* in refreshAlbum or schedulerTick races the await against a timer, so the
\* promise stays pending and the tick stays at its await
RemoteSilent(k) ==
  /\ ticks[k].pc = "fetch"
  /\ ticks' = [ticks EXCEPT ![k].pc = "hung"]
  /\ ev' = Quiet
  /\ UNCHANGED <<clock, syncInterval, albums, photos, items, isRunning, schedulerTimer,
                 timers, stats, force, budget>>

\* time passes up to the next scheduled instant whether or not a fetch is
\* awaited: a fetch can take longer than the tick interval
Elapse ==
  /\ LET target == IF Deadlines = {} THEN clock + TICK_INTERVAL_MS ELSE MinOf(Deadlines) IN
     /\ target > clock
     /\ target <= StartClock + SlowHorizon
     /\ clock' = target
  /\ ev' = Quiet
  /\ UNCHANGED <<syncInterval, albums, photos, items, isRunning, schedulerTimer, timers,
                 stats, ticks, force, budget>>

InitSlow ==
  /\ clock = StartClock
  /\ syncInterval = Some(SettingsIntervalMs)
  /\ albums = [a \in AlbumIds |-> NoRow]
  /\ photos = << >>
  /\ items = {}
  /\ isRunning = FALSE
  /\ schedulerTimer = None
  /\ timers = [t \in TimerIds |-> NoTimer]
  /\ stats = ZeroStats
  /\ ticks = [k \in TickIds |-> IdleTick]
  /\ force = IdleForce
  /\ budget = SlowRequests
  /\ ev = Quiet

\* one tag album, the scheduler started and stopped, fetches of any duration
NextSlow ==
  \/ \E iv \in AlbumIntervals : CreateAlbum("a1", TagQuery, iv)
  \/ StartScheduler
  \/ StopScheduler
  \/ \E t \in TimerIds : TimerFire(t)
  \/ \E k \in TickIds : TickFetchDone(k)
  \/ \E k \in TickIds : TickDelayDone(k)
  \/ \E k \in TickIds : RemoteSilent(k)
  \/ Elapse

SpecSlow == InitSlow /\ [][NextSlow]_vars

\* the event loop runs what is ready: timers fire, sleeps end, time passes,
\* and the continuation of a fetch runs once the request is answered
SpecSlowLive ==
  /\ InitSlow
  /\ [][NextSlow]_vars
  /\ WF_vars(Elapse)
  /\ \A t \in TimerIds : WF_vars(TimerFire(t))
  /\ \A k \in TickIds : WF_vars(TickDelayDone(k))
  /\ \A k \in TickIds : WF_vars(TickFetchDone(k))

\* ---------------------------------------------- the repositories, called directly
\* photo objects handed to upsertMany: with and without an id, two captions,
\* tags absent or with a duplicate under normalisation
RepoTags == {None, Some(<< <<"#", "A">>, <<"a">> >>)}
RepoPhotos ==
  [id : {None} \cup {Some(p) : p \in PhotoIds}, created_at : {100}, caption : {"x", "y"},
   tags : RepoTags]
MaxBatch == 2
Batches(S) == UNION {[1 .. n -> S] : n \in 0 .. MaxBatch}

\* photoRepo.upsertMany(rows)
UpsertPhotos(rows) ==
  /\ LET R == UpsertMany(photos, rows, clock) IN
       /\ photos' = R.tbl
       /\ ev' = Event("upsert", "-", [photos |-> rows, ids |-> R.ids])
  /\ UNCHANGED <<clock, syncInterval, albums, items, isRunning, schedulerTimer, timers,
                 stats, ticks, force, budget>>

\* the foreign keys of album_items: the album row and every photo row exist
ForeignKeysHold(a, ids) ==
  /\ albums[a].live
  /\ \A i \in DOMAIN ids : ids[i] \in DOMAIN photos

\* albumRepo.addPhotos(a, ids); a statement that breaks a foreign key throws
\* and the transaction is rolled back
LinkAlbumPhotos(a, ids) ==
  /\ IF ids = << >> \/ ForeignKeysHold(a, ids)
     THEN /\ items' = IF ids = << >> THEN items ELSE AddPhotos(items, a, ids)
          /\ ev' = Event("link", a,
                      [ids |-> ids,
                       inserted |-> IF ids = << >> THEN 0 ELSE InsertedCount(items, a, ids)])
     ELSE /\ items' = items
          /\ ev' = Event("link", a, [ids |-> ids, inserted |-> -1])
  /\ UNCHANGED <<clock, syncInterval, albums, photos, isRunning, schedulerTimer, timers,
                 stats, ticks, force, budget>>

\* one album, photos upserted and linked by direct calls of the repositories
NextPhotos ==
  \/ \E q \in AlbumQueries, iv \in AlbumIntervals : CreateAlbum("a1", q, iv)
  \/ \E a \in AlbumIds : DeleteAlbum(a)
  \/ \E rows \in Batches(RepoPhotos) : UpsertPhotos(rows)
  \/ \E a \in AlbumIds, ids \in Batches(PhotoIds) : LinkAlbumPhotos(a, ids)

SpecPhotos == Init /\ [][NextPhotos]_vars

\* patches handed to albumRepo.update: each names one thing or two, one nothing
RepoPatches ==
  { NoPatch,
    [NoPatch EXCEPT !.name = Some("m")],
    [NoPatch EXCEPT !.hasEnabled = TRUE, !.enabled = FALSE],
    [NoPatch EXCEPT !.hasEnabled = TRUE, !.enabled = TRUE],
    [NoPatch EXCEPT !.query = [NoQueryPatch EXCEPT !.tagmode = Some("all")]],
    [NoPatch EXCEPT !.query = [NoQueryPatch EXCEPT !.tags = Some(<< <<"b">> >>),
                                                   !.limit = Some(5)]],
    [NoPatch EXCEPT !.refresh = [k \in {"since_id"} |-> Some("p1")]],
    [NoPatch EXCEPT !.name = Some("m"),
                    !.refresh = [k \in {"last_checked_at"} |-> Some(StartClock)]] }

\* albumRepo.update(a, patch); `if (!current) throw new Error('AlbumNotFound')`
UpdateAlbum(a, patch) ==
  /\ IF albums[a].live
     THEN /\ albums' = AlbumRepoUpdate(albums, a, patch, clock)
          /\ ev' = Event("update", a, [patch |-> patch, ret |-> "row"])
     ELSE /\ albums' = albums
          /\ ev' = Event("update", a, [patch |-> patch, ret |-> "threw"])
  /\ UNCHANGED <<clock, syncInterval, photos, items, isRunning, schedulerTimer, timers,
                 stats, ticks, force, budget>>

\* the values of ?enabled= : absent, true, false
EnabledParams == {None, Some(TRUE), Some(FALSE)}

\* GET /api/albums?enabled=..: albumRepo.list({ offset, limit, enabled }) with
\* the route's default offset 0 and limit 20.  list takes offset and limit
\* from its argument, selects every row and counts every row.
ListAlbums(enabled) ==
  /\ \E order \in ListOrders(albums, LiveIds(albums)) :
       ev' = Event("list", "-",
                   [enabled |-> enabled, items |-> order, total |-> Cardinality(LiveIds(albums))])
  /\ UNCHANGED <<clock, syncInterval, albums, photos, items, isRunning, schedulerTimer,
                 timers, stats, ticks, force, budget>>

\* two albums, updated and listed by direct calls of albumRepo
NextAlbums ==
  \/ \E a \in AlbumIds, q \in AlbumQueries, iv \in AlbumIntervals : CreateAlbum(a, q, iv)
  \/ \E a \in AlbumIds : DeleteAlbum(a)
  \/ \E a \in AlbumIds, patch \in RepoPatches : UpdateAlbum(a, patch)
  \/ \E enabled \in EnabledParams : ListAlbums(enabled)

SpecAlbums == Init /\ [][NextAlbums]_vars

\* ------------------------------------------------- albumsRoutes.js, the routes
\* normalizeTags(tags) of an array: trim, drop the empty ones, then strip a
\* leading '#' and lower the case (so that '#' becomes the empty tag)
NormalizeTags(tags) ==
  LET kept == NonEmpty([i \in DOMAIN tags |-> Trim(tags[i])])
  IN  [i \in DOMAIN kept |-> ToLowerCase(StripHash(kept[i]))]

\* parseUsers(users): a flat array becomes { accts }, an object is kept when
\* its accts has an element; the result is None (undefined) or Some(accts)
ParseUsers(users) ==
  IF users = None THEN None
  ELSE IF Val(users).form = "array" THEN Some(Val(users).accts)
  ELSE IF Val(users).accts # << >> THEN Some(Val(users).accts)
  ELSE None

\* validateQuery(q) on a normalised query: None (null) or the complaint.
\* It normalises q.tags and parses q.users again; for type user it parses
\* q.users ?? q, and q itself has no accts
ValidateQuery(q) ==
  LET tagsOk  == IsSome(q.tags) /\ NormalizeTags(Val(q.tags)) # << >>
      usersOk == IsSome(q.users) /\ Val(q.users) # << >>
      tagmode == IF q.tagmode = None THEN "any" ELSE Val(q.tagmode)
      limit   == IF q.limit = None THEN 20 ELSE Val(q.limit)
  IN  IF q.type \notin {Some("tag"), Some("user"), Some("compound")} THEN Some("query.type")
      ELSE IF tagmode \notin {"any", "all"} THEN Some("query.tagmode")
      ELSE IF limit < 1 \/ limit > 40 THEN Some("query.limit")
      ELSE IF q.type = Some("tag") /\ ~tagsOk THEN Some("query.tags")
      ELSE IF q.type = Some("user") /\ ~usersOk THEN Some("query.users")
      ELSE IF q.type = Some("compound") /\ ~tagsOk THEN Some("compound tags")
      ELSE IF q.type = Some("compound") /\ ~usersOk THEN Some("compound users")
      ELSE None

\* the routes' clamp(n, lo, hi) = Math.min(hi, Math.max(lo, n))
RouteClamp(n, lo, hi) == Min2(hi, Max2(lo, n))

\* the nq of POST /api/albums: every field normalised, tagmode and limit defaulted
CreateQuery(query) ==
  [type    |-> query.type,
   tags    |-> IF query.tags = None THEN None ELSE Some(NormalizeTags(Val(query.tags))),
   users   |-> ParseUsers(query.users),
   tagmode |-> IF query.tagmode = None THEN Some("any") ELSE query.tagmode,
   limit   |-> Some(RouteClamp(IF query.limit = None THEN 20 ELSE Val(query.limit), 1, 40))]

\* the nq of PATCH /api/albums/:id: the fields the body has, normalised
PatchQuery(query) ==
  [type    |-> query.type,
   tags    |-> IF query.tags = None THEN None ELSE Some(NormalizeTags(Val(query.tags))),
   users   |-> ParseUsers(query.users),
   tagmode |-> query.tagmode,
   limit   |-> IF query.limit = None THEN None ELSE Some(RouteClamp(Val(query.limit), 1, 40))]

\* the query columns albumRepo.create writes for nq
CreatedQuery(nq) ==
  [type |-> Val(nq.type),
   tags |-> IF nq.tags = None THEN << >> ELSE Val(nq.tags),
   usersShape |-> IF nq.users = None THEN "none" ELSE "object",
   users |-> IF nq.users = None THEN << >> ELSE Val(nq.users),
   tagmode |-> Val(nq.tagmode),
   limit |-> Val(nq.limit)]

\* the patch.query albumRepo.update is handed for nq
QueryPatchOf(nq) ==
  [type |-> nq.type, tags |-> nq.tags,
   usersShape |-> IF nq.users = None THEN None ELSE Some("object"),
   users |-> nq.users, tagmode |-> nq.tagmode, limit |-> nq.limit]

\* the CHECK constraints of table albums on the query columns
ChecksHold(q) == q.type \in {"tag", "user", "compound"} /\ q.tagmode \in {"any", "all"}

\* POST /api/albums with body { name: 'n', query }: 400 on a complaint of
\* validateQuery, else albumRepo.create and 201
PostAlbums(a, query) ==
  /\ a = NextAlbumId
  /\ LET nq  == CreateQuery(query)
          err == ValidateQuery(nq)
     IN  IF IsSome(err)
         THEN /\ albums' = albums
              /\ ev' = Event("post", a, [status |-> 400])
         ELSE /\ albums' = [albums EXCEPT ![a] =
                   [used |-> TRUE, live |-> TRUE, name |-> "n", enabled |-> TRUE,
                    updated_at |-> clock, query |-> CreatedQuery(nq),
                    refresh |-> Spread(EmptyRefresh,
                                       [k \in {"intervalMs"} |-> Some(RouteIntervalMs)])]]
              /\ ev' = Event("post", a, [status |-> 201])
  /\ UNCHANGED <<clock, syncInterval, photos, items, isRunning, schedulerTimer, timers,
                 stats, ticks, force, budget>>

\* PATCH /api/albums/:id with body { query }: the complaint of validateQuery
\* counts only when the body names a type; albumRepo.update throws
\* AlbumNotFound (404) or on a CHECK constraint (500)
PatchAlbumQuery(a, query) ==
  /\ LET nq      == PatchQuery(query)
          current == IF albums[a].live THEN Some(albums[a].query.type) ELSE None
          err     == ValidateQuery([nq EXCEPT !.type = IF IsSome(nq.type) THEN nq.type
                                                      ELSE current])
          patch   == [NoPatch EXCEPT !.query = QueryPatchOf(nq)]
          written == AlbumRepoUpdate(albums, a, patch, clock)
     IN  IF IsSome(err) /\ IsSome(nq.type)
         THEN /\ albums' = albums
              /\ ev' = Event("patch", a, [status |-> 400])
         ELSE IF ~albums[a].live
         THEN /\ albums' = albums
              /\ ev' = Event("patch", a, [status |-> 404])
         ELSE IF ~ChecksHold(written[a].query)
         THEN /\ albums' = albums
              /\ ev' = Event("patch", a, [status |-> 500])
         ELSE /\ albums' = written
              /\ ev' = Event("patch", a, [status |-> 200])
  /\ UNCHANGED <<clock, syncInterval, photos, items, isRunning, schedulerTimer, timers,
                 stats, ticks, force, budget>>

\* the query objects of the request bodies
BodyUsers == {None} \cup {Some([form |-> f, accts |-> u]) :
                            f \in {"array", "object"}, u \in {<< >>, <<"u1">>}}
QueryBodies ==
  [type : {None, Some("tag"), Some("user"), Some("compound"), Some("list")},
   tags : {None, Some(<< >>), Some(<< <<"#">> >>), Some(<< <<"#", "A">>, <<" ">> >>)},
   users : BodyUsers,
   tagmode : {None, Some("all"), Some("some")},
   limit : {None, Some(0), Some(5), Some(41)}]

\* one album, created, patched and deleted through the routes
NextRoutes ==
  \/ \E query \in QueryBodies : PostAlbums("a1", query)
  \/ \E a \in AlbumIds, query \in QueryBodies : PatchAlbumQuery(a, query)
  \/ \E a \in AlbumIds : DeleteAlbum(a)

SpecRoutes == Init /\ [][NextRoutes]_vars

\* ------------------------------------------------------- photoFetcher.js
\* norm = t => String(t || '').toLowerCase()
Norm(t) == ToLowerCase(t)
NormSet(postTags) == {Norm(postTags[i]) : i \in DOMAIN postTags}

\* hasAnyTag: required.some(t => set.has(norm(t)))
HasAnyTag(postTags, required) ==
  required = << >> \/ \E i \in DOMAIN required : Norm(required[i]) \in NormSet(postTags)

\* a test that is content with the first required tag, and hasAllTags:
\* required.every(t => set.has(norm(t)))
HasFirstTag(postTags, required) ==
  required = << >> \/ Norm(required[1]) \in NormSet(postTags)

HasAllTags(postTags, required) ==
  required = << >> \/ \A i \in DOMAIN required : Norm(required[i]) \in NormSet(postTags)

\* tagmode === 'all' ? hasAllTags(p.tags, tags) : hasAnyTag(p.tags, tags)
TagFilter(tagmode, postTags, required) ==
  IF tagmode = "all" THEN HasAllTags(postTags, required) ELSE HasAnyTag(postTags, required)

\* clamp(n, lo, hi) = Math.max(lo, Math.min(hi, n))
Clamp(n, lo, hi) == Max2(lo, Min2(hi, n))

\* Number(v) || d : v is None when it is undefined or not a number
NumberOr(v, d) == IF v = None \/ Val(v) = 0 THEN d ELSE Val(v)

\* a limit handed on as it was asked for, and the fetchers' effective limit:
\* clamp(Number(opts.limit) || 20, 1, 40)
UnclampedLimit(opts) == NumberOr(opts.limit, 20)

EffectiveLimit(opts) == Clamp(NumberOr(opts.limit, 20), 1, 40)

\* String(opts.tagmode || 'any').toLowerCase()
TagModeOf(opts) == IF opts.tagmode = None THEN "any" ELSE Val(opts.tagmode)

\* tagsInput.map(s => String(s).replace(/^#/, '').trim()).filter(Boolean)
CleanTags(tagsInput) ==
  NonEmpty([i \in DOMAIN tagsInput |-> Trim(StripHash(tagsInput[i]))])

\* list.slice(0, n) for n >= 0
Slice(list, n) == SubSeq(list, 1, Min2(n, Len(list)))

\* lists.flat()
RECURSIVE Flat(_)
Flat(lists) == IF lists = << >> THEN << >> ELSE lists[1] \o Flat(Tail(lists))

\* list.sort((a, b) => new Date(b.created_at) - new Date(a.created_at)):
\* newest first, equal dates in their order of arrival
RECURSIVE InsertByDate(_, _)
InsertByDate(sorted, p) ==
  IF sorted = << >> THEN <<p>>
  ELSE IF sorted[Len(sorted)].created_at >= p.created_at THEN Append(sorted, p)
  ELSE Append(InsertByDate(SubSeq(sorted, 1, Len(sorted) - 1), p), sorted[Len(sorted)])

RECURSIVE SortNewestFirst(_)
SortNewestFirst(list) ==
  IF list = << >> THEN list
  ELSE InsertByDate(SortNewestFirst(SubSeq(list, 1, Len(list) - 1)), list[Len(list)])

\* dedupeById: the first photo of every id, in order
RECURSIVE DedupeById(_)
DedupeById(list) ==
  IF list = << >> THEN list
  ELSE LET init == DedupeById(SubSeq(list, 1, Len(list) - 1))
           last == list[Len(list)]
       IN  IF \E i \in DOMAIN init : init[i].id = last.id THEN init ELSE Append(init, last)

\* [...new Map(list.map(p => [p.id, p])).values()]: one entry per id at the
\* place of its first occurrence, holding the last photo of that id
UnionById(list) ==
  LET first == DedupeById(list)
  IN  [i \in DOMAIN first |->
         list[CHOOSE k \in DOMAIN list :
                /\ list[k].id = first[i].id
                /\ \A m \in DOMAIN list : list[m].id = first[i].id => m <= k]]

\* ---- the remote instance: posts 1 .. n (a higher number is a newer post with
\* one image attachment), and the HTTP status each timeline answers with
\* (0: the connection fails)
TagNames == {<<"a">>, <<"b">>, <<"c">>}
Accounts == {"u1", "u2"}
OwnerOf(p) == IF p % 2 = 1 THEN "u1" ELSE "u2"

RECURSIVE Descending(_)
Descending(S) ==
  IF S = {} THEN << >>
  ELSE LET m == CHOOSE x \in S : \A y \in S : y <= x IN <<m>> \o Descending(S \ {m})

\* normalizeStatusesToPhotos / statusToPhotos of post p: id, created_at, tags
PhotoOfPost(remote, p) == [id |-> p, created_at |-> p, tags |-> remote.posts[p]]
PhotosOfPosts(remote, ids) == [i \in DOMAIN ids |-> PhotoOfPost(remote, ids[i])]

\* GET /api/v1/timelines/tag/:tag?limit=n and /api/v1/accounts/:id/statuses
\* answered with 200: the newest n posts of the tag / of the account
TagPage(remote, tag, n) ==
  Slice(Descending({p \in DOMAIN remote.posts : Norm(tag) \in NormSet(remote.posts[p])}), n)
AccountPage(remote, id, n) ==
  Slice(Descending({p \in DOMAIN remote.posts : OwnerOf(p) = id}), n)

StatusOf(table, key) == IF key \in DOMAIN table THEN table[key] ELSE 200

\* errors thrown on the way: fetchTagTimeline's two UpstreamErrors, fetch's
\* TypeError, pixelfedApi.get's and fetchPhotos' plain Errors
UnreachableError == [kind |-> "err", cands |-> << >>, code |-> "upstream_error",
                     msg |-> <<"Unable to reach the remote instance">>]
FetchFailed == [kind |-> "err", cands |-> << >>, code |-> "", msg |-> <<"fetch failed">>]
PixelfedGetError(status) ==
  [kind |-> "err", cands |-> << >>, code |-> "",
   msg |-> <<"Pixelfed GET failed (">> \o StatusDigits(status) \o <<")">>]
PixelfedFetchError(status) ==
  [kind |-> "err", cands |-> << >>, code |-> "",
   msg |-> <<"Pixelfed fetch failed (">> \o StatusDigits(status) \o <<")">>]

\* fetchTagTimeline(tag, { limit })
FetchTagTimeline(remote, tag, limit) ==
  LET status == StatusOf(remote.tagStatus, Norm(tag))
  IN  IF status = 0 THEN UnreachableError
      ELSE IF status = 429 THEN RateLimitError
      ELSE IF status >= 500 THEN UpstreamError
      ELSE IF status \notin 200 .. 299 THEN Fetched(<< >>)
      ELSE Fetched(PhotosOfPosts(remote, TagPage(remote, tag, limit)))

\* pixelfedApi.get of an account's statuses: withRetry gives up on a status
\* that stays 429 or 5xx and does not retry another error
ApiGet(remote, id, per) ==
  LET status == StatusOf(remote.acctStatus, id)
  IN  IF status = 0 THEN FetchFailed
      ELSE IF status \notin 200 .. 299 THEN PixelfedGetError(status)
      ELSE Fetched(PhotosOfPosts(remote, AccountPage(remote, id, per)))

\* the settled results of the calls made for the targets, in order
Pages(results) == [i \in DOMAIN results |-> results[i].cands]
Failures(results) == {i \in DOMAIN results : results[i].kind = "err"}

\* getLatestPhotosForTags(tagsInput, opts): the set of results the call can
\* settle with (Promise.all rejects with the rejection that arrives first)
GetLatestPhotosForTags(remote, tagsInput, opts) ==
  LET limit    == EffectiveLimit(opts)
      tagmode  == TagModeOf(opts)
      tags     == CleanTags(tagsInput)
      headroom == Min2(limit * 5, 200)
      perTagLists == [i \in DOMAIN tags |-> FetchTagTimeline(remote, tags[i], headroom)]
      candidates  == UnionById(Flat(Pages(perTagLists)))
      filtered    == SelectSeq(candidates, LAMBDA p : TagFilter(tagmode, p.tags, tags))
  IN  IF tags = << >> THEN {Fetched(<< >>)}
      ELSE IF Failures(perTagLists) # {}
      THEN {perTagLists[i] : i \in Failures(perTagLists)}
      ELSE {Fetched(Slice(SortNewestFirst(filtered), limit))}

\* Math.ceil(limit * 1.5)
CeilOneAndHalf(limit) == (3 * limit + 1) \div 2

\* getLatestPhotosForUsers(accountIds, opts): one account after the other,
\* the first failure is thrown
GetLatestPhotosForUsers(remote, accountIds, opts) ==
  LET limit == EffectiveLimit(opts)
      per   == Clamp(CeilOneAndHalf(limit), 10, 40)
      got   == [i \in DOMAIN accountIds |-> ApiGet(remote, accountIds[i], per)]
      all   == Flat(Pages(got))
  IN  IF Failures(got) # {}
      THEN {got[CHOOSE i \in Failures(got) : \A k \in Failures(got) : i <= k]}
      ELSE {Fetched(Slice(DedupeById(SortNewestFirst(all)), limit))}

\* getLatestPhotosCompound({ tags, accountIds }, opts)
GetLatestPhotosCompound(remote, input, opts) ==
  LET limit    == EffectiveLimit(opts)
      tagmode  == TagModeOf(opts)
      tags     == CleanTags(input.tags)
      users    == input.accountIds
      headroom == Min2(limit * 3, 120)
      inner    == [limit |-> Some(limit), tagmode |-> Some(tagmode)]
  IN  IF tags # << >> /\ users = << >> THEN GetLatestPhotosForTags(remote, tags, inner)
      ELSE IF users # << >> /\ tags = << >> THEN GetLatestPhotosForUsers(remote, users, inner)
      ELSE { IF r.kind = "err" THEN r
             ELSE Fetched(Slice(SortNewestFirst(
                    SelectSeq(r.cands, LAMBDA p : TagFilter(tagmode, p.tags, tags))), limit))
             : r \in GetLatestPhotosForUsers(remote, users,
                                             [limit |-> Some(headroom), tagmode |-> None]) }

\* photoService.fetchPhotos({ limit, source }): one page of limit * 2 posts
\* of a tag or an account, newest first, cut to limit
FetchPhotos(remote, source, opts) ==
  LET limit  == Max2(1, Min2(40, NumberOr(opts.limit, 10)))
      status == IF source.type = "tag" THEN StatusOf(remote.tagStatus, source.tag)
                ELSE StatusOf(remote.acctStatus, source.accountId)
      page   == IF source.type = "tag" THEN TagPage(remote, source.tag, limit * 2)
                ELSE AccountPage(remote, source.accountId, limit * 2)
  IN  IF status = 0 THEN {FetchFailed}
      ELSE IF status \notin 200 .. 299 THEN {PixelfedFetchError(status)}
      ELSE {Fetched(Slice(SortNewestFirst(PhotosOfPosts(remote, page)), limit))}

\* ---- the fetchers, called directly
SmallPosts == 4
BigPosts == 45

\* tag lists a post can carry
PostTags == { << <<"a">>, <<"b">> >>, << <<"a">> >>, << <<"b">>, <<"c">> >>, << <<"A">> >>,
              << >> }
Healthy(posts) == [posts |-> posts, tagStatus |-> [t \in TagNames |-> 200],
                   acctStatus |-> [u \in Accounts |-> 200]]

\* every tagging of SmallPosts posts, and BigPosts posts that all carry tag a
SmallRemotes == {Healthy(posts) : posts \in [1 .. SmallPosts -> PostTags]}
BigRemote == Healthy([p \in 1 .. BigPosts |-> << <<"a">> >>])

\* one tagging, with the tag timelines or the account timelines answering
\* with any status
Statuses == {200, 404, 429, 503, 0}
ExamplePosts ==
  [p \in 1 .. SmallPosts |->
     CASE p = 1 -> << <<"b">>, <<"c">> >> [] p = 2 -> << <<"a">> >>
       [] p = 3 -> << <<"a">>, <<"b">> >> [] OTHER -> << >>]
FailingRemotes ==
  {[Healthy(ExamplePosts) EXCEPT !.tagStatus = st] : st \in [TagNames -> Statuses]}
  \cup {[Healthy(ExamplePosts) EXCEPT !.acctStatus = st] : st \in [Accounts -> Statuses]}

\* what the callers hand in
TagInputs  == { << <<"a">>, <<"b">> >>, << <<"#", "A">>, <<"B">> >>, << <<"c">> >>, << >> }
UserInputs == { << >>, <<"u1">>, <<"u1", "u2">> }
TagModes   == {Some("all"), Some("any"), None}
SmallLimits == {Some(1), Some(2), None}
AnyLimits   == {Some(1000), Some(41), Some(40), Some(1), Some(0), Some(-3), None}
\* fetchPhotos' source of a call: { type: 'user', accountId } when an account
\* is named, { type: 'tag', tag } otherwise
SourceOf(call) ==
  IF call.users # << >> THEN [type |-> "user", tag |-> << >>, accountId |-> call.users[1]]
  ELSE [type |-> "tag", tag |-> call.tags[1], accountId |-> ""]

CallsOn(remotes, limits) ==
  [fn : {"tags"}, remote : remotes, tags : TagInputs, users : {<< >>},
   opts : [limit : limits, tagmode : TagModes]]
  \cup [fn : {"users"}, remote : remotes, tags : {<< >>}, users : UserInputs,
        opts : [limit : limits, tagmode : {None}]]
  \cup [fn : {"compound"}, remote : remotes, tags : TagInputs, users : UserInputs,
        opts : [limit : limits, tagmode : TagModes]]
  \cup [fn : {"fetchPhotos"}, remote : remotes, tags : {<< <<"a">> >>}, users : {<< >>, <<"u1">>},
        opts : [limit : limits, tagmode : {None}]]

Calls ==
  CallsOn(SmallRemotes, SmallLimits) \cup CallsOn({BigRemote}, AnyLimits)
  \cup CallsOn(FailingRemotes, {None})

\* a call about to be made: an idle backend, the call in ev
InitFetch ==
  /\ clock = StartClock
  /\ syncInterval = Some(SettingsIntervalMs)
  /\ albums = [a \in AlbumIds |-> NoRow]
  /\ photos = << >>
  /\ items = {}
  /\ isRunning = FALSE
  /\ schedulerTimer = None
  /\ timers = [t \in TimerIds |-> NoTimer]
  /\ stats = ZeroStats
  /\ ticks = [k \in TickIds |-> IdleTick]
  /\ force = IdleForce
  /\ budget = MaxRequests
  /\ \E c \in Calls : ev = Event("call", "-", c)

Settles(results) ==
  /\ ev.op = "call"
  /\ \E out \in results : ev' = Event("settled", "-", [call |-> ev.res, out |-> out])
  /\ UNCHANGED <<clock, syncInterval, albums, photos, items, isRunning, schedulerTimer,
                 timers, stats, ticks, force, budget>>

ResolveTags ==
  /\ ev.op = "call"
  /\ ev.res.fn = "tags"
  /\ Settles(GetLatestPhotosForTags(ev.res.remote, ev.res.tags, ev.res.opts))

ResolveUsers ==
  /\ ev.op = "call"
  /\ ev.res.fn = "users"
  /\ Settles(GetLatestPhotosForUsers(ev.res.remote, ev.res.users, ev.res.opts))

ResolveCompound ==
  /\ ev.op = "call"
  /\ ev.res.fn = "compound"
  /\ Settles(GetLatestPhotosCompound(ev.res.remote,
                                     [tags |-> ev.res.tags, accountIds |-> ev.res.users],
                                     ev.res.opts))

FetchPhotosCall ==
  /\ ev.op = "call"
  /\ ev.res.fn = "fetchPhotos"
  /\ Settles(FetchPhotos(ev.res.remote, SourceOf(ev.res), ev.res.opts))

NextFetch == ResolveTags \/ ResolveUsers \/ ResolveCompound \/ FetchPhotosCall

SpecFetch == InitFetch /\ [][NextFetch]_vars

\* ------------------------------------------------------------- auth.js
\* Math.floor(Date.now() / 1000)
AuthClock == StartClock \div 1000

\* the margin before expiry inside which the token is refreshed
ExpiryMarginS == 60

NotAuthenticated == <<"Not authenticated">>
FetchFailedMsg   == <<"fetch failed">>

\* a validity test without the margin
NotYetExpired(t, now) == now < t.created_at + t.expires_in

\* const expiresAt = t.created_at + t.expires_in; now < (expiresAt - 60)
StillValid(t, now) == now < (t.created_at + t.expires_in) - ExpiryMarginS

\* writeToken(body) after body.created_at = now
WrittenToken(body, now) ==
  [access_token |-> body.access_token, refresh_token |-> body.refresh_token,
   created_at |-> now, expires_in |-> body.expires_in]

\* getAccessToken() with .token.json holding `file` (None: no file) at second
\* `now`, the token endpoint answering a refresh with `answer`: what is
\* returned (ret) or thrown (err) and what .token.json holds afterwards
GetAccessToken(file, now, answer) ==
  IF file = None
  THEN [ret |-> None, err |-> NotAuthenticated, file |-> file]
  ELSE IF StillValid(Val(file), now)
  THEN [ret |-> Some(Val(file).access_token), err |-> << >>, file |-> file]
  ELSE IF answer.kind = "unreachable"
  THEN [ret |-> None, err |-> FetchFailedMsg, file |-> file]
  ELSE IF answer.kind = "refused"
  THEN [ret |-> None, err |-> RefreshFailedError(answer.status, answer.body).msg, file |-> None]
  ELSE [ret |-> Some(answer.body.access_token), err |-> << >>,
        file |-> Some(WrittenToken(answer.body, now))]

\* getStatus(): authenticated when .token.json can be read
Authenticated(file) == file # None

\* ---- getAccessToken, called directly
TokenAges == {0, 1, 59, 3600}
TokenLifetimes == {0, 60, 61, 120, 3600}
StoredTokens ==
  {None} \cup {Some([access_token |-> "OLD", refresh_token |-> "R",
                     created_at |-> AuthClock - age, expires_in |-> life]) :
                 age \in TokenAges, life \in TokenLifetimes}
NoBody == [access_token |-> "", refresh_token |-> "", expires_in |-> 0]
TokenAnswers ==
  {[kind |-> "ok", status |-> 200, body |-> [access_token |-> "NEW", refresh_token |-> "NR",
                                              expires_in |-> life]] : life \in {61, 3600}}
  \cup {[kind |-> "refused", status |-> st, body |-> b] : st \in {401, 500}, b \in TokenBodies}
  \cup {[kind |-> "unreachable", status |-> 0, body |-> NoBody]}

\* a call about to be made: the token file, and what the endpoint would answer
InitAuth ==
  /\ clock = StartClock
  /\ syncInterval = Some(SettingsIntervalMs)
  /\ albums = [a \in AlbumIds |-> NoRow]
  /\ photos = << >>
  /\ items = {}
  /\ isRunning = FALSE
  /\ schedulerTimer = None
  /\ timers = [t \in TimerIds |-> NoTimer]
  /\ stats = ZeroStats
  /\ ticks = [k \in TickIds |-> IdleTick]
  /\ force = IdleForce
  /\ budget = MaxRequests
  /\ \E file \in StoredTokens, answer \in TokenAnswers :
       ev = Event("auth", "-", [file |-> file, answer |-> answer])

GetAccessTokenCall ==
  /\ ev.op = "auth"
  /\ ev' = Event("authed", "-",
                 [call |-> ev.res, out |-> GetAccessToken(ev.res.file, AuthClock, ev.res.answer)])
  /\ UNCHANGED <<clock, syncInterval, albums, photos, items, isRunning, schedulerTimer,
                 timers, stats, ticks, force, budget>>

SpecAuth == InitAuth /\ [][GetAccessTokenCall]_vars

\* --------------------------------------- the requests of one resolve call
\* pixelfedApi.get: withRetry(doFetch, { retries: 3, baseDelayMs: 400 })
ApiRetries     == 3
ApiBaseDelayMs == 400
\* withRetry: Math.random() * 100, rounded into the delay
RetryJitterMs  == 100

\* withRetry's default retryOn: 429 and 5xx (a failed connection has no status)
RetryOn(status) == status = 429 \/ (status >= 500 /\ status <= 599)

\* Math.round(base * Math.pow(2, attempt) + Math.random() * 100)
RetryDelay(attempt, jitter) == ApiBaseDelayMs * Pow2(attempt) + jitter
RetryJitters == {0, RetryJitterMs}

\* the resolve calls of a refresh, request by request: getLatestPhotosForTags
\* over one or two tags, getLatestPhotosForUsers over one or two account ids
ResolveCalls ==
  {[fn |-> "tags", targets |-> t] : t \in {<< <<"a">> >>, << <<"a">>, <<"b">> >>}}
  \cup {[fn |-> "users", targets |-> u] : u \in {<<"u1">>, <<"u1", "u2">>}}

\* the call in progress: the targets still to be asked, where the call stands
\* (start, await, sleep, done), withRetry's attempt, the end of its sleep,
\* the requests sent and still unanswered, the requests sent so far, whether
\* one of them was answered 429, and what the call settles with
CallState(c) ==
  [fn |-> c.fn, targets |-> c.targets, pc |-> "start", attempt |-> 0, wake |-> 0,
   outstanding |-> 0, sent |-> 0, limited |-> FALSE, out |-> "pending"]

InitRetry ==
  /\ clock = StartClock
  /\ syncInterval = Some(SettingsIntervalMs)
  /\ albums = [a \in AlbumIds |-> NoRow]
  /\ photos = << >>
  /\ items = {}
  /\ isRunning = FALSE
  /\ schedulerTimer = None
  /\ timers = [t \in TimerIds |-> NoTimer]
  /\ stats = ZeroStats
  /\ ticks = [k \in TickIds |-> IdleTick]
  /\ force = IdleForce
  /\ budget = MaxRequests
  /\ \E c \in ResolveCalls : ev = Event("resolve", "a1", CallState(c))

RetryFrame == UNCHANGED <<syncInterval, albums, photos, items, isRunning, schedulerTimer,
                          timers, stats, ticks, force, budget>>

\* getLatestPhotosForTags: Promise.all(tags.map(t => fetchTagTimeline(t, ...)))
\* sends one request per tag before any of them is answered
SendTagRequests ==
  /\ ev.op = "resolve"
  /\ ev.res.fn = "tags"
  /\ ev.res.pc = "start"
  /\ ev' = [ev EXCEPT !.res.pc = "await",
                      !.res.outstanding = Len(ev.res.targets),
                      !.res.sent = Len(ev.res.targets)]
  /\ UNCHANGED clock
  /\ RetryFrame

\* one tag timeline answers: fetchTagTimeline throws RateLimitError on 429 and
\* UpstreamError on 5xx or a failed connection, and Promise.all settles with
\* the first rejection; no request is sent again
TagAnswer(status) ==
  /\ ev.op = "resolve"
  /\ ev.res.fn = "tags"
  /\ ev.res.pc = "await"
  /\ LET thrown == IF status = 429 THEN "rate_limited"
                   ELSE IF status >= 500 \/ status = 0 THEN "error" ELSE "pending"
         out    == IF ev.res.out # "pending" THEN ev.res.out ELSE thrown
         left   == ev.res.outstanding - 1
     IN  ev' = [ev EXCEPT !.res.outstanding = left,
                          !.res.limited = @ \/ status = 429,
                          !.res.out = IF left = 0 /\ out = "pending" THEN "ok" ELSE out,
                          !.res.pc = IF left = 0 THEN "done" ELSE "await"]
  /\ UNCHANGED clock
  /\ RetryFrame

\* getLatestPhotosForUsers: apiGet for the next account id; doFetch sends the
\* request (first attempt, or withRetry's next attempt after its sleep)
SendAccountRequest ==
  /\ ev.op = "resolve"
  /\ ev.res.fn = "users"
  /\ ev.res.pc = "start" \/ (ev.res.pc = "sleep" /\ clock >= ev.res.wake)
  /\ ev' = [ev EXCEPT !.res.pc = "await", !.res.outstanding = 1, !.res.sent = @ + 1,
                      !.res.wake = 0]
  /\ UNCHANGED clock
  /\ RetryFrame

\* the account's statuses answer: 2xx goes on to the next id; any other
\* answer is thrown by doFetch, and withRetry either sleeps and tries again
\* or rethrows (`attempt === retries || !retryOn(e)`)
AccountAnswer(status, jitter) ==
  /\ ev.op = "resolve"
  /\ ev.res.fn = "users"
  /\ ev.res.pc = "await"
  /\ LET ok      == status \in 200 .. 299
         rest    == Tail(ev.res.targets)
         rethrow == ev.res.attempt = ApiRetries \/ ~RetryOn(status)
     IN  ev' = [ev EXCEPT
           !.res.outstanding = 0,
           !.res.limited = @ \/ status = 429,
           !.res.targets = IF ok THEN rest ELSE @,
           !.res.attempt = IF ok THEN 0 ELSE IF rethrow THEN @ ELSE @ + 1,
           !.res.wake = IF ok \/ rethrow THEN 0 ELSE clock + RetryDelay(ev.res.attempt, jitter),
           !.res.out = IF ok THEN (IF rest = << >> THEN "ok" ELSE "pending")
                       ELSE IF rethrow THEN (IF status = 429 THEN "rate_limited" ELSE "error")
                       ELSE "pending",
           !.res.pc = IF ok THEN (IF rest = << >> THEN "done" ELSE "start")
                      ELSE IF rethrow THEN "done" ELSE "sleep"]
  /\ UNCHANGED clock
  /\ RetryFrame

\* withRetry's setTimeout(r, delay) runs out
RetrySleep ==
  /\ ev.op = "resolve"
  /\ ev.res.pc = "sleep"
  /\ clock < ev.res.wake
  /\ clock' = ev.res.wake
  /\ UNCHANGED ev
  /\ RetryFrame

NextRetry ==
  \/ SendTagRequests
  \/ \E status \in Statuses : TagAnswer(status)
  \/ SendAccountRequest
  \/ \E status \in Statuses, jitter \in RetryJitters : AccountAnswer(status, jitter)
  \/ RetrySleep

SpecRetry == InitRetry /\ [][NextRetry]_vars

\* ------------------------------- a refresh against a remote with its posts
\* (input.accountIds || []).filter(Boolean) over an object
FilterNotFunction == [kind |-> "err", cands |-> << >>, code |-> "",
                      msg |-> <<"filter is not a function">>]

\* JSON.parse(album.query_users) in refreshAlbum: the stored object, or []
\* when the column is null
SchedulerUsers(query) == IF query.usersShape = "none" THEN Some(<< >>) ELSE None

\* refreshAlbum's fetch: limit = album.query_limit || 20, headroom =
\* Math.min(limit * 5, 200), and the headroom is the `limit` of fetchParams
RefreshResolve(query, remote) ==
  LET limit       == IF query.limit = 0 THEN 20 ELSE query.limit
      headroom    == Min2(limit * 5, 200)
      fetchParams == [limit |-> Some(headroom), tagmode |-> Some(query.tagmode)]
      users       == SchedulerUsers(query)
  IN  CASE query.type = "tag" -> GetLatestPhotosForTags(remote, query.tags, fetchParams)
        [] query.type = "user" ->
             IF IsSome(users) THEN GetLatestPhotosForUsers(remote, Val(users), fetchParams)
             ELSE {NotIterable}
        [] OTHER ->
             IF IsSome(users)
             THEN GetLatestPhotosCompound(remote, [tags |-> query.tags, accountIds |-> Val(users)],
                                          fetchParams)
             ELSE {FilterNotFunction}

\* POST /:id/refresh: Number(row.page_limit || row.limit || 24) on a row that
\* has neither column
ManualBaseLimit == 24

\* the route's tags: strip '#', trim, lowercase, unique, filter(Boolean)
ManualTags(tags) == Unique(NonEmpty([i \in DOMAIN tags |-> ToLowerCase(Trim(StripHash(tags[i])))]))

\* the route's fetch: users = parseJsonArray(row.query_users) is [] for the
\* stored object, headroom = Math.min(baseLimit * 3, 120) is the fetcher's limit
ManualResolve(query, remote) ==
  LET headroom == Min2(ManualBaseLimit * 3, 120)
      tags     == ManualTags(query.tags)
      users    == << >>
  IN  CASE query.type = "tag" ->
             GetLatestPhotosForTags(remote, tags,
                                    [limit |-> Some(headroom), tagmode |-> Some(query.tagmode)])
        [] query.type = "user" ->
             GetLatestPhotosForUsers(remote, users, [limit |-> Some(headroom), tagmode |-> None])
        [] OTHER ->
             GetLatestPhotosCompound(remote, [tags |-> tags, accountIds |-> users],
                                     [limit |-> Some(headroom), tagmode |-> Some(query.tagmode)])

\* a fetched photo as upsertMany reads it
AsPhoto(p) == [id |-> Some(p.id), created_at |-> p.created_at, caption |-> "c",
               tags |-> Some(p.tags)]

\* the albums the create route can store with limit L, and remotes on which
\* n posts carry tag a
ManyPosts == 12
LimitChoices == {1, 2, 5, 8, 40}
LimitQueries ==
  {[type |-> ty, usersShape |-> IF ty = "tag" THEN "none" ELSE "object",
    users |-> IF ty = "tag" THEN << >> ELSE <<"u1">>,
    tags |-> IF ty = "user" THEN << >> ELSE << <<"a">> >>, tagmode |-> tm, limit |-> L]
     : ty \in {"tag", "user", "compound"}, tm \in {"any", "all"}, L \in LimitChoices}
PostCounts == {0, 1, 3, ManyPosts}
LimitRemotes == {Healthy([p \in 1 .. n |-> << <<"a">> >>]) : n \in PostCounts}

InitLimit ==
  /\ clock = StartClock
  /\ syncInterval = Some(SettingsIntervalMs)
  /\ \E q \in LimitQueries :
       albums = [a \in AlbumIds |->
                   IF a = "a1"
                   THEN [used |-> TRUE, live |-> TRUE, name |-> "n", enabled |-> TRUE,
                         updated_at |-> StartClock, query |-> q, refresh |-> EmptyRefresh]
                   ELSE NoRow]
  /\ photos = << >>
  /\ items = {}
  /\ isRunning = FALSE
  /\ schedulerTimer = None
  /\ timers = [t \in TimerIds |-> NoTimer]
  /\ stats = ZeroStats
  /\ ticks = [k \in TickIds |-> IdleTick]
  /\ force = IdleForce
  /\ budget = MaxRequests
  /\ \E n \in PostCounts, via \in {"refreshAlbum", "manual"} : ev = Event(via, "a1", n)

\* what both refreshes do with the settled candidates: upsertMany, then
\* addPhotos of the clean ids; a rejected fetch stores nothing
StoreCandidates(results) ==
  /\ \E out \in results :
       LET upserted == UpsertMany(photos, [i \in DOMAIN out.cands |-> AsPhoto(out.cands[i])], clock)
           cleanIds == Unique(upserted.ids)
       IN  IF out.kind = "ok"
           THEN /\ photos' = upserted.tbl
                /\ items' = AddPhotos(items, "a1", cleanIds)
           ELSE UNCHANGED <<photos, items>>
  /\ ev' = Event("refreshed", "a1", ev.res)
  /\ UNCHANGED <<clock, syncInterval, albums, isRunning, schedulerTimer, timers, stats, ticks,
                 force, budget>>

\* refreshAlbum(a1) as a tick or forceRefreshAlbum runs it
SchedulerRefreshCall ==
  /\ ev.op = "refreshAlbum"
  /\ StoreCandidates(RefreshResolve(albums["a1"].query,
                                    Healthy([p \in 1 .. ev.res |-> << <<"a">> >>])))

\* POST /api/albums/a1/refresh
ManualRefreshCall ==
  /\ ev.op = "manual"
  /\ StoreCandidates(ManualResolve(albums["a1"].query,
                                   Healthy([p \in 1 .. ev.res |-> << <<"a">> >>])))

NextLimit == SchedulerRefreshCall \/ ManualRefreshCall

SpecLimit == InitLimit /\ [][NextLimit]_vars

\* ===================================================================
\* Properties
\* ===================================================================
\* ------------------------------------------- what a step did, read off it
\* schedulerTick ran its due-check in this step (called by start() or a timer)
DueCheckRuns == ev' = Event("start", "-", "started") \/ ev' = Event("tick", "-", "ran")

\* album a is in the due-list a tick took up in this step
Selected(a) ==
  \E k \in TickIds :
    /\ ticks[k].pc = "idle"
    /\ ticks'[k].pc = "fetch"
    /\ \E i \in DOMAIN ticks'[k].due : ticks'[k].due[i].id = a

\* a refresh of album a (by a tick, or forced) ended in this step with result res
RefreshEnds(a, res) ==
  ev' = Event("refresh", a, res) \/ ev' = Event("force_refresh", a, res)

\* the refresh_json the refresh that ends in this step had read
ReadBy(a) ==
  IF ev'.op = "force_refresh" THEN force.due[1].row.refresh
  ELSE LET k == CHOOSE u \in TickIds : ticks[u].pc = "fetch" /\ ticks'[u] # ticks[u]
       IN  ticks[k].due[1].row.refresh

\* that refresh read the refresh state the album still has
ReadIsCurrent(a) == ReadBy(a) = albums[a].refresh

\* messages of the errors that are a remote 429 / are not one
RateLimitMessages == {RateLimitError.msg}
OtherErrorMessages ==
  {UpstreamError.msg, NotIterable.msg} \cup {RefreshFailedError(401, b).msg : b \in TokenBodies}

InBackoffNow(a) ==
  /\ IsSome(albums[a].refresh["backoff_until"])
  /\ clock < Val(albums[a].refresh["backoff_until"])

\* ms stretched / shrunk by the jitter percentage
Stretched(ms) == ms + (ms * JITTER_PERCENTAGE) \div 100
Shrunk(ms)    == ms - (ms * JITTER_PERCENTAGE) \div 100

\* ------------------------------------------------------------------ C1
\* C1: an album whose backoff_until is set and later than the tick's time is
\* in no due-list a tick takes up at that time, whatever its other fields are.
C1_DueRespectsBackoff ==
  [][\A a \in AlbumIds : InBackoffNow(a) => ~Selected(a)]_vars

\* a tick has just run while an enabled album is in backoff although the
\* interval the due-check uses has elapsed for every jitter
C1_Witness ==
  /\ ev = Event("tick", "-", "ran")
  /\ \E a \in AlbumIds :
       /\ albums[a].live
       /\ albums[a].enabled
       /\ InBackoffNow(a)
       /\ IsSome(albums[a].refresh["last_checked_at"])
       /\ clock >= Val(albums[a].refresh["last_checked_at"])
                   + Stretched(RefreshIntervalOf(albums[a].refresh, syncInterval))

\* ------------------------------------------------------------------ C2
\* C2: at every due-check, an enabled album that is not in backoff and was
\* stored with interval I (refresh.intervalMs) is selected when it was never
\* checked or when now >= last_checked_at + I * (1 + jitter), and is not
\* selected when now < last_checked_at + I * (1 - jitter).
C2_DueUsesAlbumInterval ==
  [][DueCheckRuns =>
       \A a \in AlbumIds :
         (/\ albums[a].live
          /\ albums[a].enabled
          /\ ~InBackoffNow(a)
          /\ IsSome(albums[a].refresh["intervalMs"]))
         => LET I    == Val(albums[a].refresh["intervalMs"])
                last == albums[a].refresh["last_checked_at"]
            IN  /\ (last = None => Selected(a))
                /\ (IsSome(last) /\ clock >= Val(last) + Stretched(I) => Selected(a))
                /\ (IsSome(last) /\ clock < Val(last) + Shrunk(I) => ~Selected(a))]_vars

\* ------------------------------------------------------------------ C3
\* C3: when a refresh of an album whose stored retry_count is r ends
\* rate-limited by a remote 429, retry_count becomes r + 1 and backoff_until
\* lies now + min(base * 2^r, max) ahead, give or take the jitter.
C3_BackoffEscalation ==
  [][\A a \in AlbumIds :
       (/\ RefreshEnds(a, "rate_limited")
        /\ ReadIsCurrent(a)
        /\ albums'[a].refresh["last_error"] \in {Some(m) : m \in RateLimitMessages})
       => LET r == RetryCountOf(albums[a].refresh)
              W == Min2(BaseBackoffMs * Pow2(r), MAX_BACKOFF_MS)
              b == albums'[a].refresh["backoff_until"]
          IN  /\ albums'[a].refresh["retry_count"] = Some(r + 1)
              /\ IsSome(b)
              /\ Val(b) - clock >= Shrunk(W)
              /\ Val(b) - clock <= Stretched(W)]_vars

\* ------------------------------------------------------------------ C4
\* C4: when a refresh of an album ends in success, the returned photos are
\* stored and linked to the album, backoff_until and last_error are null,
\* retry_count is 0, last_checked_at is now, and since_id is the id of the
\* newest returned candidate, or what it was when none was returned.
C4_SuccessTransition ==
  [][\A a \in AlbumIds :
       RefreshEnds(a, "success")
       => /\ albums'[a].refresh["backoff_until"] = None
          /\ albums'[a].refresh["last_error"] = None
          /\ albums'[a].refresh["retry_count"] = Some(0)
          /\ albums'[a].refresh["last_checked_at"] = Some(clock)
          /\ \E c \in CandidateLists :
               LET ids == {c[i] : i \in DOMAIN c} IN
               /\ DOMAIN photos' = DOMAIN photos \cup ids
               /\ items' = items \cup {<<a, p>> : p \in ids}
               /\ albums'[a].refresh["since_id"] =
                    IF ids = {} THEN albums[a].refresh["since_id"]
                    ELSE Some(CHOOSE p \in ids : \A q \in ids : CreatedAt[q] <= CreatedAt[p])]_vars

\* ------------------------------------------------------------------ C5
\* C5: when a refresh of an album ends rate-limited by a remote 429,
\* retry_count is one more than it was, last_error is recorded,
\* last_checked_at is now, backoff_until is later than now, since_id and the
\* album's membership are as they were; and a tick that runs within one tick
\* interval (plus the pauses of a tick) of that refresh does not select it.
C5_RateLimitedTransition ==
  [][/\ \A a \in AlbumIds :
          (/\ RefreshEnds(a, "rate_limited")
           /\ albums'[a].refresh["last_error"] \in {Some(m) : m \in RateLimitMessages})
          => /\ albums'[a].refresh["retry_count"] = Some(RetryCountOf(albums[a].refresh) + 1)
             /\ albums'[a].refresh["last_checked_at"] = Some(clock)
             /\ IsSome(albums'[a].refresh["backoff_until"])
             /\ Val(albums'[a].refresh["backoff_until"]) > clock
             /\ albums'[a].refresh["since_id"] = albums[a].refresh["since_id"]
             /\ {e \in items' : e[1] = a} = {e \in items : e[1] = a}
     /\ DueCheckRuns =>
          \A a \in AlbumIds :
            (/\ albums[a].refresh["last_error"] \in {Some(m) : m \in RateLimitMessages}
             /\ IsSome(albums[a].refresh["backoff_until"])
             /\ IsSome(albums[a].refresh["last_checked_at"])
             /\ clock <= Val(albums[a].refresh["last_checked_at"]) + TICK_INTERVAL_MS
                         + InterAlbumDelayMs * Cardinality(AlbumIds))
            => ~Selected(a)]_vars

\* ------------------------------------------------------------------ C6
\* C6: when a refresh of an album ends with an error that is no remote 429
\* (a remote 5xx, a refused token refresh, a TypeError), last_error is
\* recorded and last_checked_at is now, and backoff_until, retry_count and
\* since_id keep their values.
C6_FailedTransition ==
  [][\A a \in AlbumIds, res \in {"failed", "rate_limited"} :
       (/\ RefreshEnds(a, res)
        /\ ReadIsCurrent(a)
        /\ albums'[a].refresh["last_error"] \in {Some(m) : m \in OtherErrorMessages})
       => /\ albums'[a].refresh["last_checked_at"] = Some(clock)
          /\ albums'[a].refresh["backoff_until"] = albums[a].refresh["backoff_until"]
          /\ albums'[a].refresh["retry_count"] = albums[a].refresh["retry_count"]
          /\ albums'[a].refresh["since_id"] = albums[a].refresh["since_id"]]_vars

\* ------------------------------------------------------------------ C7
\* C7: a refresh that does not end in success leaves no photo row and no
\* membership edge behind and does not move the since_id it read; and
\* whenever a refresh moves since_id, the post it names is stored and linked
\* to the album.
C7_RefreshAtomicity ==
  [][\A a \in AlbumIds :
       /\ \A res \in {"failed", "rate_limited", "threw"} :
            RefreshEnds(a, res)
            => /\ photos' = photos
               /\ items' = items
               /\ ReadIsCurrent(a)
                    => albums'[a].refresh["since_id"] = albums[a].refresh["since_id"]
       /\ \A res \in {"success", "failed", "rate_limited", "threw"} :
            (/\ RefreshEnds(a, res)
             /\ albums'[a].refresh["since_id"] # albums[a].refresh["since_id"]
             /\ IsSome(albums'[a].refresh["since_id"]))
            => /\ Val(albums'[a].refresh["since_id"]) \in DOMAIN photos'
               /\ <<a, Val(albums'[a].refresh["since_id"])>> \in items']_vars

\* ------------------------------------------------------------------ C8
\* C8: while the scheduler is running, a tick that still has due albums
\* after the one it is refreshing goes on to them, however that refresh ends:
\* it does not return with part of its due-list unattempted.
C8_FailureIsolation ==
  [][\A k \in TickIds :
       (/\ ticks[k].pc # "idle"
        /\ Len(ticks[k].due) > 1
        /\ ticks'[k] # ticks[k]
        /\ isRunning
        /\ isRunning')
       => /\ ticks'[k].pc # "idle"
          /\ ticks'[k].due \in {ticks[k].due, Tail(ticks[k].due)}]_vars

\* ------------------------------------------------------------------ C9
\* C9: stop() leaves the ticks that are under way alone; a refresh that is in
\* flight when the scheduler is stopped still ends and writes its transition
\* (last_checked_at = now); and no tick begins a refresh, neither its next
\* album nor a new due-list, while the running flag is off.
C9_StopSemantics ==
  [][/\ (ev'.op = "stop" => ticks' = ticks)
     /\ \A k \in TickIds :
          /\ (ticks[k].pc # "fetch" /\ ticks'[k].pc = "fetch") => isRunning'
          /\ (/\ ~isRunning
              /\ ticks[k].pc = "fetch"
              /\ ticks'[k] # ticks[k]
              /\ albums[ticks[k].due[1].id].live)
             => /\ ev'.op = "refresh"
                /\ ev'.res \in {"success", "rate_limited", "failed"}
                /\ albums'[ticks[k].due[1].id].refresh["last_checked_at"] = Some(clock)]_vars

\* the scheduler was stopped while a tick with two due albums was refreshing
\* the first: that refresh has ended and the tick is in its pause, the second
\* album still on its list
C9_Witness ==
  /\ ~isRunning
  /\ ev.op = "refresh"
  /\ \E k \in TickIds :
       /\ ticks[k].pc = "delay"
       /\ Len(ticks[k].due) > 1
       /\ albums[ticks[k].due[1].id].refresh["last_checked_at"] = Some(clock)

\* ------------------------------------------------------------------ C10
\* C10: start() on a running scheduler and stop() on a stopped one change
\* nothing: the running flag, the counters with started_at, the timers and
\* the ticks under way are as before.
C10_StartStopIdempotent ==
  [][((ev'.op = "start" /\ isRunning) \/ (ev'.op = "stop" /\ ~isRunning))
       => /\ isRunning' = isRunning
          /\ stats' = stats
          /\ timers' = timers
          /\ schedulerTimer' = schedulerTimer
          /\ ticks' = ticks]_vars

\* start() was called on a running scheduler whose timer is armed
C10_Witness ==
  /\ ev = Event("start", "-", "already")
  /\ isRunning
  /\ \E t \in TimerIds : timers[t].armed

\* ------------------------------------------------------------------ C11
\* the results refreshAlbum can end in for the row object `snap`, the
\* function a scheduled refresh runs (TickFetchDone)
ScheduledResults(snap) ==
  {RefreshAlbum(snap, out, clock, j, Store) :
     out \in FetchOutcomes(snap.row), j \in JitterSteps}

\* C11: forceRefreshAlbum fails only for an album that does not exist, and
\* then no album, photo, membership or counter changes; for an existing album
\* (enabled or not, in backoff or not, scheduler running or not) the refresh
\* it runs ends in a result a scheduled refresh of the same row produces, with
\* the success / rate-limited / failed fields and counters written.
C11_ForceRefresh ==
  [][\A a \in AlbumIds :
       /\ ev' = Event("force", a, "not_found") =>
            /\ ~albums[a].live
            /\ albums' = albums /\ photos' = photos /\ items' = items /\ stats' = stats
       /\ \A res \in {"success", "rate_limited", "failed"} :
            ev' = Event("force_refresh", a, res) =>
              /\ \E R \in ScheduledResults(force.due[1]) :
                    /\ R.outcome = res
                    /\ albums' = R.albums /\ photos' = R.photos
                    /\ items' = R.items /\ stats' = R.stats
              /\ albums'[a].refresh["last_checked_at"] = Some(clock)
              /\ res = "success" =>
                    /\ albums'[a].refresh["backoff_until"] = None
                    /\ albums'[a].refresh["retry_count"] = Some(0)
                    /\ stats'.albums_refreshed = stats.albums_refreshed + 1
              /\ res = "rate_limited" =>
                    /\ IsSome(albums'[a].refresh["backoff_until"])
                    /\ Val(albums'[a].refresh["backoff_until"]) > clock
                    /\ stats'.rate_limited = stats.rate_limited + 1
              /\ res = "failed" =>
                    /\ albums'[a].refresh["last_error"] \in {Some(m) : m \in OtherErrorMessages}
                                                            \cup {Some(AlbumNotFound.msg)}
                    /\ stats'.errors = stats.errors + 1
    ]_vars

\* a forced refresh of a disabled album ended while the scheduler was stopped
C11_Witness ==
  /\ \E res \in {"success", "rate_limited", "failed"} : ev = Event("force_refresh", "a1", res)
  /\ ~albums["a1"].enabled
  /\ ~isRunning

\* ------------------------------------------------------------------ C12
\* the last record of a batch that carries status id p
LastWith(rows, p) ==
  rows[CHOOSE i \in DOMAIN rows :
         /\ rows[i].id = Some(p)
         /\ \A k \in DOMAIN rows : rows[k].id = Some(p) => k <= i]

\* C12: after upsertMany the photos table has one row for every status id
\* stored before or carried by a record of the call, and no other; the row of
\* an id the call carries has the fields of the last record carrying it, the
\* other rows and every membership edge are as they were; the returned list
\* names the records that have an id, in order, and none that has no id.
C12_IdempotentUpsert ==
  [][ev'.op = "upsert" =>
       LET rows  == ev'.res.photos
           ids   == ev'.res.ids
           withId == {i \in DOMAIN rows : rows[i].id # None}
           given == {Val(rows[i].id) : i \in withId}
       IN  /\ DOMAIN photos' = DOMAIN photos \cup given
           /\ \A p \in given :
                /\ photos'[p].caption_html = LastWith(rows, p).caption
                /\ photos'[p].created_at = LastWith(rows, p).created_at
                /\ photos'[p].tags_json = TagsJson(LastWith(rows, p).tags)
           /\ \A p \in DOMAIN photos \ given : photos'[p] = photos[p]
           /\ items' = items
           /\ Len(ids) = Cardinality(withId)
           /\ \A n \in DOMAIN ids :
                \E i \in withId :
                  /\ ids[n] = Val(rows[i].id)
                  /\ Cardinality({k \in withId : k <= i}) = n
    ]_vars

\* an upsert of a photo that was stored with another caption and is linked
\* to an album, in a batch that also has a record without an id
C12_Witness ==
  /\ ev.op = "upsert"
  /\ \E i, k \in DOMAIN ev.res.photos :
       /\ ev.res.photos[i].id = Some("p1")
       /\ ev.res.photos[k].id = None
  /\ <<"a1", "p1">> \in items
  /\ photos["p1"].caption_html = "y"

\* ------------------------------------------------------------------ C13
\* C13: addPhotos returns the number of pairs (album, status id) among the
\* ones it was handed that were not in album_items before the call, and the
\* table grows by exactly those pairs: handing in only pairs that are present
\* changes nothing and returns 0, and a pair handed in twice counts once.
C13_IdempotentLink ==
  [][(ev'.op = "link" /\ ev'.res.inserted >= 0) =>
       LET a     == ev'.album
           ids   == ev'.res.ids
           pairs == {<<a, ids[i]>> : i \in DOMAIN ids}
       IN  /\ ev'.res.inserted = Cardinality(pairs \ items)
           /\ items' = items \cup pairs
           /\ Cardinality(items') = Cardinality(items) + ev'.res.inserted
           /\ pairs \subseteq items => (items' = items /\ ev'.res.inserted = 0)
    ]_vars

\* the same pair was handed in twice in one call and counted once
C13_Witness ==
  /\ ev.op = "link"
  /\ ev.res.ids = <<"p1", "p1">>
  /\ ev.res.inserted = 1
  /\ <<"a1", "p1">> \in items

\* ------------------------------------------------------------------ C14
QueryColumns == {"type", "tags", "usersShape", "users", "tagmode", "limit"}

\* C14: albumRepo.update on an album that exists leaves every refresh key the
\* patch's refresh object does not have, and name, enabled and every query
\* column the patch does not give, at their stored values, writes the ones it
\* gives, and touches no other album; on an id without a row it throws
\* AlbumNotFound and no album changes.
C14_UpdateFrame ==
  [][ev'.op = "update" =>
       LET a     == ev'.album
           patch == ev'.res.patch
       IN  IF ~albums[a].live
           THEN ev'.res.ret = "threw" /\ albums' = albums
           ELSE /\ ev'.res.ret = "row"
                /\ \A k \in RefreshKeys :
                     albums'[a].refresh[k] =
                       IF k \in DOMAIN patch.refresh THEN patch.refresh[k]
                       ELSE albums[a].refresh[k]
                /\ albums'[a].name = IF patch.name = None THEN albums[a].name
                                     ELSE Val(patch.name)
                /\ albums'[a].enabled = IF patch.hasEnabled THEN patch.enabled
                                        ELSE albums[a].enabled
                /\ \A f \in QueryColumns :
                     patch.query[f] = None => albums'[a].query[f] = albums[a].query[f]
                /\ \A b \in AlbumIds \ {a} : albums'[b] = albums[b]
    ]_vars

\* an update that named since_id alone, on an album that had been renamed
\* and has its interval from creation
C14_Witness ==
  /\ ev.op = "update"
  /\ ev.res.ret = "row"
  /\ DOMAIN ev.res.patch.refresh = {"since_id"}
  /\ albums[ev.album].refresh["since_id"] = Some("p1")
  /\ albums[ev.album].refresh["intervalMs"] = Some(30000)
  /\ albums[ev.album].refresh["last_checked_at"] = Some(StartClock)
  /\ albums[ev.album].name = "m"

\* ------------------------------------------------------------------ C15
\* C15: a listing asked for enabled = b has only albums whose enabled flag is
\* b and its total is the number of those albums; a listing without the
\* filter has every album.
C15_ListEnabledFilter ==
  [][ev'.op = "list" =>
       LET r     == ev'.res
           shown == {r.items[i] : i \in DOMAIN r.items}
       IN  IF r.enabled = None
           THEN shown = LiveIds(albums) /\ r.total = Cardinality(LiveIds(albums))
           ELSE /\ shown = {a \in LiveIds(albums) : albums[a].enabled = Val(r.enabled)}
                /\ r.total = Cardinality(shown)
    ]_vars

\* ------------------------------------------------------------------ C16
\* the tags asked for, without '#' and surrounding blanks, in lower case
Asked(call) == {ToLowerCase(t) : t \in {CleanTags(call.tags)[i] : i \in DOMAIN CleanTags(call.tags)}}
Carried(photo) == {ToLowerCase(photo.tags[i]) : i \in DOMAIN photo.tags}
Returned(out) == {out.cands[i].id : i \in DOMAIN out.cands}

\* C16: a tag resolve, or a compound resolve, with a non-empty tag list
\* returns only photos that carry all the tags asked for when tagmode is all,
\* and at least one of them otherwise, letter case aside; on posts tagged
\* {b,c}, {a}, {a,b} and tags [a,b] with room for all, tagmode all returns the
\* one tagged {a,b} alone and tagmode any returns the three.
C16_TagModeFilter ==
  (/\ ev.op = "settled"
   /\ ev.res.call.fn \in {"tags", "compound"}
   /\ Asked(ev.res.call) # {}
   /\ ev.res.out.kind = "ok")
  => LET call == ev.res.call
         out  == ev.res.out
         all  == call.opts.tagmode = Some("all")
     IN  /\ \A i \in DOMAIN out.cands :
              IF all THEN Asked(call) \subseteq Carried(out.cands[i])
              ELSE Asked(call) \cap Carried(out.cands[i]) # {}
         /\ (/\ call.remote = Healthy(ExamplePosts)
             /\ Asked(call) = {<<"a">>, <<"b">>}
             /\ call.fn = "tags" \/ call.users = <<"u1", "u2">>
             /\ call.opts.limit = None)
            => Returned(out) = IF all THEN {3} ELSE {1, 2, 3}

\* the tag resolve of [#A, B] with tagmode all on the example posts returned
\* the post tagged {a,b}
C16_Witness ==
  /\ ev.op = "settled"
  /\ ev.res.call.fn = "tags"
  /\ ev.res.call.remote = Healthy(ExamplePosts)
  /\ ev.res.call.tags = << <<"#", "A">>, <<"B">> >>
  /\ ev.res.call.opts.tagmode = Some("all")
  /\ ev.res.out.kind = "ok"
  /\ Returned(ev.res.out) = {3}

\* ------------------------------------------------------------------ C17
\* the posts the pages of a call bring in when every timeline answers 200 and
\* no page is full, and the ones among them that pass the call's filter
ByTags(call) ==
  call.fn = "tags" \/ (call.fn = "compound" /\ Asked(call) # {} /\ call.users = << >>)
FetchedPosts(call) ==
  IF ByTags(call)
  THEN {p \in DOMAIN call.remote.posts : Asked(call) \cap Carried(PhotoOfPost(call.remote, p)) # {}}
  ELSE {p \in DOMAIN call.remote.posts : \E i \in DOMAIN call.users : call.users[i] = OwnerOf(p)}
Passing(call) ==
  {p \in FetchedPosts(call) :
     \/ call.fn = "users"
     \/ Asked(call) = {}
     \/ IF call.opts.tagmode = Some("all")
        THEN Asked(call) \subseteq Carried(PhotoOfPost(call.remote, p))
        ELSE Asked(call) \cap Carried(PhotoOfPost(call.remote, p)) # {}}
AskedLimit(call) == IF call.opts.limit = None THEN 20 ELSE Val(call.opts.limit)

\* C17: a tag, user or compound resolve returns the newest `limit` of the
\* fetched posts that pass its filter, so that a result shorter than `limit`
\* has every fetched post that passes.
C17_FilterBeforeTruncation ==
  (/\ ev.op = "settled"
   /\ ev.res.call.fn \in {"tags", "users", "compound"}
   /\ ev.res.call.remote \in SmallRemotes
   /\ ev.res.out.kind = "ok")
  => LET call == ev.res.call
         ids  == [i \in DOMAIN ev.res.out.cands |-> ev.res.out.cands[i].id]
     IN  /\ ids = Slice(Descending(Passing(call)), AskedLimit(call))
         /\ Len(ids) < AskedLimit(call) => Passing(call) \subseteq Returned(ev.res.out)

\* ------------------------------------------------------------------ C18
\* the limit a call is to work with: what was asked when that is a number in
\* 1 .. 40, 40 above, 1 below zero, and the function's default for 0 and NaN
ClampedLimit(call) ==
  LET asked == call.opts.limit
  IN  IF asked = None \/ asked = Some(0)
      THEN (IF call.fn = "fetchPhotos" THEN 10 ELSE 20)
      ELSE IF Val(asked) > 40 THEN 40
      ELSE IF Val(asked) < 1 THEN 1
      ELSE Val(asked)

\* calls on the remote with BigPosts posts that have more than 40 posts to
\* choose from whatever the limit is
Plentiful(call) ==
  /\ call.remote = BigRemote
  /\ \/ call.fn = "tags" /\ <<"a">> \in Asked(call) /\ call.opts.tagmode # Some("all")
     \/ call.fn = "users" /\ call.users = <<"u1", "u2">>
     \/ call.fn = "fetchPhotos" /\ call.users = << >>
     \/ /\ call.fn = "compound"
        /\ call.users = <<"u1", "u2">>
        /\ <<"a">> \in Asked(call)
        /\ call.opts.tagmode # Some("all")

\* C18: whatever limit is asked for (above 40, 0, negative, not a number), a
\* tag, user or compound resolve and fetchPhotos return at most the limit
\* clamped to 1 .. 40, and exactly that many when there are enough posts: at
\* most 40 for limit 1000.
C18_LimitClamp ==
  (ev.op = "settled" /\ ev.res.out.kind = "ok")
  => LET call == ev.res.call
         n    == Len(ev.res.out.cands)
     IN  /\ ClampedLimit(call) \in 1 .. 40
         /\ n <= ClampedLimit(call)
         /\ Plentiful(call) => n = ClampedLimit(call)
         /\ call.opts.limit = Some(1000) => n <= 40

\* a tag resolve asked for 1000 photos of 45 returned 40
C18_Witness ==
  /\ ev.op = "settled"
  /\ ev.res.call.fn = "tags"
  /\ ev.res.call.remote = BigRemote
  /\ ev.res.call.opts.limit = Some(1000)
  /\ ev.res.out.kind = "ok"
  /\ Len(ev.res.out.cands) = 40

\* ------------------------------------------------------------------ C19
\* the timelines a tag or user resolve asks for, and the status each answers with
Targets(call) == IF call.fn = "tags" THEN Asked(call)
                 ELSE {call.users[i] : i \in DOMAIN call.users}
TargetStatus(call, x) ==
  IF call.fn = "tags" THEN call.remote.tagStatus[x] ELSE call.remote.acctStatus[x]
Retryable == {503, 0}
PostsOf(call, x) ==
  {p \in DOMAIN call.remote.posts :
     IF call.fn = "tags" THEN x \in Carried(PhotoOfPost(call.remote, p)) ELSE OwnerOf(p) = x}

\* C19: when a tag or user resolve has a target whose timeline fails with a
\* 5xx or a network failure and every other target answers 200, a resolve
\* with several targets still returns the passing photos of the targets that
\* answered, and a resolve with one target fails.
C19_PartialFailure ==
  (/\ ev.op = "settled"
   /\ ev.res.call.fn \in {"tags", "users"}
   /\ \A x \in Targets(ev.res.call) : TargetStatus(ev.res.call, x) \in {200} \cup Retryable
   /\ \E x \in Targets(ev.res.call) : TargetStatus(ev.res.call, x) \in Retryable
   /\ \/ Cardinality(Targets(ev.res.call)) = 1
      \/ \E x \in Targets(ev.res.call) : TargetStatus(ev.res.call, x) = 200)
  => LET call == ev.res.call
         out  == ev.res.out
     IN  IF Cardinality(Targets(call)) = 1 THEN out.kind = "err"
         ELSE /\ out.kind = "ok"
              /\ \A x \in Targets(call) :
                   TargetStatus(call, x) = 200
                   => PostsOf(call, x) \cap Passing(call) \subseteq Returned(out)

\* ------------------------------------------------------------------ C20
\* C20: in a tag or user resolve, timelines that answer 200 or another 4xx
\* than 429 make no error: the resolve returns the passing photos of the
\* timelines that answered 200; a resolve of one timeline that answers 429
\* fails with a RateLimitError, and with an UpstreamError when it answers 5xx
\* or cannot be reached.
C20_ResponseClassification ==
  (/\ ev.op = "settled"
   /\ ev.res.call.fn \in {"tags", "users"}
   /\ Targets(ev.res.call) # {})
  => LET call == ev.res.call
         out  == ev.res.out
         answered == {x \in Targets(call) : TargetStatus(call, x) = 200}
     IN  /\ (\A x \in Targets(call) : TargetStatus(call, x) \in {200, 404})
            => /\ out.kind = "ok"
               /\ Cardinality(DOMAIN call.remote.posts) <= ClampedLimit(call)
                    => Returned(out) =
                         {p \in Passing(call) : \E x \in answered : p \in PostsOf(call, x)}
         /\ \A x \in Targets(call) :
              Targets(call) = {x}
              => /\ TargetStatus(call, x) = 429 => out.code = "rate_limited"
                 /\ TargetStatus(call, x) \in {503, 0} => out.code = "upstream_error"

\* ------------------------------------------------------------------ C21
\* the query invariant on a stored row
QueryInvariant(q) ==
  /\ q.type \in {"tag", "compound"} => q.tags # << >>
  /\ q.type \in {"user", "compound"} => q.users # << >>
  /\ q.limit \in 1 .. 40

\* C21: after a create or update request every stored album has a non-empty
\* tag list when its type is tag or compound, a non-empty user list when its
\* type is user or compound, and a limit in 1 .. 40; a request answered with
\* a validation error leaves the albums as they were.
C21_AlbumQueryInvariant ==
  [][ev'.op \in {"post", "patch"} =>
       /\ \A a \in AlbumIds : albums'[a].live => QueryInvariant(albums'[a].query)
       /\ ev'.res.status = 400 => albums' = albums
    ]_vars

\* ------------------------------------------------------------------ C22
\* C22: every album refresh a tick has begun comes to its end (success,
\* rate-limited or failed) and the tick goes on, also when the remote
\* instance does not answer the request: the call is ended after its timeout.
C22_RefreshTerminates ==
  \A k \in TickIds : (ticks[k].pc \in {"fetch", "hung"}) ~> (ticks[k].pc \notin {"fetch", "hung"})

\* ------------------------------------------------------------------ C23
\* C23: a manual refresh answered with 200 leaves albums, photos and
\* album_items as the success transition of a scheduled refresh of the row it
\* read does on the same fetch result: last_checked_at is now, since_id is the
\* newest fetched post (or unchanged), backoff_until and last_error are null,
\* retry_count is 0; and the album is then not due, whatever the jitter.
C23_ManualEqualsScheduled ==
  [][\A a \in AlbumIds :
       ev' = Event("manual", a, "200") =>
         /\ \E c \in CandidateLists :
              LET R == RefreshAlbum(force.due[1], Fetched(c), clock, 0, Store) IN
                /\ R.outcome = "success"
                /\ photos' = R.photos
                /\ items' = R.items
                /\ albums' = R.albums
         /\ albums'[a].refresh["last_checked_at"] = Some(clock)
         /\ albums'[a].refresh["backoff_until"] = None
         /\ albums'[a].refresh["retry_count"] = Some(0)
         /\ \A j \in JitterSteps : ~IsDueForRefresh(albums'[a], clock, syncInterval, j)
    ]_vars

\* ------------------------------------------------------------------ C24
\* seconds the token in `file` has left at `now`
SecondsLeft(file, now) == Val(file).created_at + Val(file).expires_in - now

ArmedTimers == {t \in TimerIds : timers[t].armed}

\* C25: no interval timer is armed while the scheduler is not running, and
\* at most one is armed while it is running, however start() and stop() are
\* interleaved with the ticks.
C25_SingleTimer ==
  /\ ~isRunning => ArmedTimers = {}
  /\ isRunning => Cardinality(ArmedTimers) <= 1

\* ------------------------------------------------------------------ C26
\* the ticks whose refreshAlbum awaits its fetch
Refreshing == {k \in TickIds : ticks[k].pc \in {"fetch", "hung"}}

\* C26: at most one album refresh begun by the scheduler's ticks is in
\* flight at any moment, also when a refresh outlasts the tick interval or
\* when stop() is followed by start() while a tick is still under way; no
\* album is refreshed by two ticks at once.
C26_OneRefreshInFlight ==
  /\ Cardinality(Refreshing) <= 1
  /\ \A k, m \in Refreshing : k # m => ticks[k].due[1].id # ticks[m].due[1].id

\* ------------------------------------------------------------------ C27
\* the refresh-state fields each transition of refreshAlbum sets
TransitionKeys(res) ==
  CASE res = "success" -> {"last_checked_at", "since_id", "backoff_until", "last_error",
                           "retry_count"}
    [] res = "rate_limited" -> {"backoff_until", "last_error", "retry_count", "last_checked_at"}
    [] OTHER -> {"last_error", "last_checked_at"}

\* C27: when a refresh of an album writes its transition, every field of the
\* album's refresh state that the transition does not set keeps the value
\* the row holds at that moment, so that what a request handler wrote while
\* the refresh was under way (or after the tick read its due-list) is still
\* there afterwards.
C27_NoLostUpdate ==
  [][\A a \in AlbumIds : \A res \in {"success", "rate_limited", "failed"} :
       RefreshEnds(a, res)
       => \A k \in RefreshKeys \ TransitionKeys(res) :
            albums'[a].refresh[k] = albums[a].refresh[k]]_vars

\* ------------------------------------------------------------------ C28
\* the watermark `after` names a post at least as new as the one `before` names
NotOlder(before, after) ==
  IsSome(before) => (IsSome(after) /\ CreatedAt[Val(after)] >= CreatedAt[Val(before)])

\* C28: a refresh never moves since_id to an older post: after a refresh
\* that ends in success the post since_id names was created no earlier than
\* the one it named before, and a refresh that ends failed or rate-limited
\* leaves since_id as it was.
C28_WatermarkMonotone ==
  [][\A a \in AlbumIds :
       /\ RefreshEnds(a, "success")
          => NotOlder(albums[a].refresh["since_id"], albums'[a].refresh["since_id"])
       /\ (RefreshEnds(a, "failed") \/ RefreshEnds(a, "rate_limited"))
          => albums'[a].refresh["since_id"] = albums[a].refresh["since_id"]]_vars

C30_RefreshHonoursLimit ==
  [][ev'.op = "refreshed"
     => /\ Cardinality(DOMAIN photos' \ DOMAIN photos) <= albums["a1"].query.limit
        /\ Cardinality(items' \ items) <= albums["a1"].query.limit]_vars

====
